---- MODULE Spec2Model ----
(***************************************************************************)
(* gitnav: the TTL-gated cache store (src/src/cache.rs), the bounded-depth *)
(* repository scanner (src/src/scanner.rs), the preview (src/src/          *)
(* preview.rs), the configuration (src/src/config.rs) and the navigation   *)
(* run (src/src/main.rs).                                                  *)
(*                                                                         *)
(* Strings are sequences of character codes.  The clock counts ticks of    *)
(* 1/TicksPerSec second so that the truncation of Duration::as_secs is     *)
(* visible.  The specifications share the variables:                       *)
(*   Spec        the cache store under concurrent probes, saves, loads and *)
(*               clears, with a wall clock that may be stepped back;       *)
(*   SpecCodec   save / load applied to record sequences and to raw file   *)
(*               contents drawn from bounded sets;                         *)
(*   SpecScan    the directory walk of scan_repos over bounded trees;      *)
(*   SpecSeq     the cache store used by one process at a time;            *)
(*   SpecRace    saves of one search path in flight together with loads;   *)
(*   SpecKey     cache_file_path applied to pairs of search paths;         *)
(*   SpecFormat  format_duration applied to a duration and its negation;   *)
(*   SpecPreview generate_preview under two configurations;                *)
(*   SpecNav     navigation runs, one after the other, between clock       *)
(*               ticks, clears of the cache and changes of the tree;       *)
(*   SpecConfig  Config::load over config files and environment variables; *)
(*   SpecNavRace navigation runs beside a process that clears the cache;   *)
(*   SpecNavNamed navigation runs over a directory whose name holds a line *)
(*               feed;                                                     *)
(*   SpecScanRoots scan_repos started at any directory of the tree.        *)
(***************************************************************************)
EXTENDS Integers, Sequences, FiniteSets, TLC

(***************************************************************************)
(* Characters                                                              *)
(***************************************************************************)
TAB == 9
LF == 10
CR == 13
CharA == 97
CharB == 98
\* a byte that is not valid UTF-8 (possible in an OsStr path, not in a String)
BAD == 128
\* U+FFFD, what Path::display() prints for an undecodable byte
REPL == 65533

(***************************************************************************)
(* Bounds                                                                  *)
(***************************************************************************)
MaxTime == 6
MaxTtl == 2
MaxNameLen == 1
MaxPathLen == 2
MaxRecords == 2
MaxRawLen == 5
MaxScanDepth == 3
MaxWriters == 2
MaxKeyLen == 3
MaxMultiple == 3
MaxCommits == 2
MaxNavTime == 3

\* clock ticks per second (SystemTime has sub-second resolution)
TicksPerSec == 2

(***************************************************************************)
(* Strings                                                                 *)
(***************************************************************************)
StrOver(alphabet, n) == UNION {[1..k -> alphabet] : k \in 0..n}

IndexOf(s, c) ==
  IF \E i \in 1..Len(s) : s[i] = c
    THEN CHOOSE i \in 1..Len(s) : s[i] = c /\ \A j \in 1..(i - 1) : s[j] # c
    ELSE 0

\* str::split(c): the fields between the occurrences of c, at least one field
RECURSIVE Split(_, _)
Split(s, c) ==
  LET i == IndexOf(s, c) IN
    IF i = 0 THEN <<s>>
    ELSE <<SubSeq(s, 1, i - 1)>> \o Split(SubSeq(s, i + 1, Len(s)), c)

\* str::lines(): lines end at "\n" or "\r\n"; the terminator is not part of
\* the line, the last line needs no terminator, and an empty tail is no line
RECURSIVE Lines(_)
Lines(s) ==
  IF s = <<>> THEN <<>>
  ELSE LET i == IndexOf(s, LF) IN
    IF i = 0 THEN <<s>>
    ELSE LET raw == SubSeq(s, 1, i - 1)
             line == IF raw # <<>> /\ raw[Len(raw)] = CR
                       THEN SubSeq(raw, 1, Len(raw) - 1) ELSE raw
         IN <<line>> \o Lines(SubSeq(s, i + 1, Len(s)))

\* [String]::join(sep)
RECURSIVE Join(_, _)
Join(ss, sep) ==
  IF ss = <<>> THEN <<>>
  ELSE IF Len(ss) = 1 THEN ss[1]
  ELSE ss[1] \o <<sep>> \o Join(Tail(ss), sep)

\* Path::display(): lossy, an undecodable byte prints as U+FFFD
Display(path) == [i \in 1..Len(path) |-> IF path[i] = BAD THEN REPL ELSE path[i]]

ValidUtf8(s) == \A i \in 1..Len(s) : s[i] # BAD

(***************************************************************************)
(* GitRepo and the cache file format                                       *)
(***************************************************************************)
GitRepo(n, p) == [name |-> n, path |-> p]

\* format!("{}\t{}", repo.name, repo.path.display())
FormatRepo(repo) == repo.name \o <<TAB>> \o Display(repo.path)

\* the contents save writes: the formatted records joined with "\n"
SaveContents(repos) ==
  Join([i \in 1..Len(repos) |-> FormatRepo(repos[i])], LF)

\* the closure of load's filter_map: a line with exactly two fields is a repo
ParseLineMutAtLeastTwo(line) ==
  LET parts == Split(line, TAB) IN
    IF Len(parts) >= 2 THEN <<GitRepo(parts[1], parts[2])>> ELSE <<>>
ParseLine(line) ==
  LET parts == Split(line, TAB) IN
    IF Len(parts) = 2 THEN <<GitRepo(parts[1], parts[2])>> ELSE <<>>

RECURSIVE FilterMapLines(_)
FilterMapLines(ls) ==
  IF ls = <<>> THEN <<>> ELSE ParseLine(Head(ls)) \o FilterMapLines(Tail(ls))

\* contents.lines().filter_map(..).collect()
ParseContents(contents) == FilterMapLines(Lines(contents))

(***************************************************************************)
(* SHA-256 (sha2::Sha256) and the lower-case hexadecimal rendering         *)
(*                                                                         *)
(* A 32-bit word is the pair <<high 16 bits, low 16 bits>>.                *)
(***************************************************************************)
K256 == <<
  <<17034, 12184>>, <<28983, 17553>>, <<46528, 64463>>, <<59829, 56229>>,
  <<14678, 49755>>, <<23025, 4593>>, <<37439, 33444>>, <<43804, 24277>>,
  <<55303, 43672>>, <<4739, 23297>>, <<9265, 34238>>, <<21772, 32195>>,
  <<29374, 23924>>, <<32990, 45566>>, <<39900, 1703>>, <<49563, 61812>>,
  <<58523, 27073>>, <<61374, 18310>>, <<4033, 40390>>, <<9228, 41420>>,
  <<11753, 11375>>, <<19060, 33962>>, <<23728, 43484>>, <<30457, 35034>>,
  <<38974, 20818>>, <<43057, 50797>>, <<45059, 10184>>, <<48985, 32711>>,
  <<50912, 3059>>, <<54695, 37191>>, <<1738, 25425>>, <<5161, 10599>>,
  <<10167, 2693>>, <<11803, 8504>>, <<19756, 28156>>, <<21304, 3347>>,
  <<25866, 29524>>, <<30314, 2747>>, <<33218, 51502>>, <<37490, 11397>>,
  <<41663, 59553>>, <<43034, 26187>>, <<49739, 35696>>, <<51052, 20899>>,
  <<53650, 59417>>, <<54937, 1572>>, <<62478, 13701>>, <<4202, 41072>>,
  <<6564, 49430>>, <<7735, 27656>>, <<10056, 30540>>, <<13488, 48309>>,
  <<14620, 3251>>, <<20184, 43594>>, <<23452, 51791>>, <<26670, 28659>>,
  <<29839, 33518>>, <<30885, 25455>>, <<33992, 30740>>, <<36039, 520>>,
  <<37054, 65530>>, <<42064, 27883>>, <<48889, 41975>>, <<50801, 30962>>>>

H256 == <<
  <<27145, 58983>>, <<47975, 44677>>, <<15470, 62322>>, <<42319, 62778>>,
  <<20750, 21119>>, <<39685, 26764>>, <<8067, 55723>>, <<23520, 52505>>>>

RECURSIVE Xor16(_, _, _)
Xor16(a, b, c) ==
  IF a = 0 /\ b = 0 /\ c = 0 THEN 0
  ELSE ((a + b + c) % 2) + 2 * Xor16(a \div 2, b \div 2, c \div 2)

RECURSIVE Maj16(_, _, _)
Maj16(a, b, c) ==
  IF a = 0 /\ b = 0 /\ c = 0 THEN 0
  ELSE (((a % 2) + (b % 2) + (c % 2)) \div 2) + 2 * Maj16(a \div 2, b \div 2, c \div 2)

RECURSIVE Ch16(_, _, _)
Ch16(e, f, g) ==
  IF e = 0 THEN g
  ELSE (IF e % 2 = 1 THEN f % 2 ELSE g % 2) + 2 * Ch16(e \div 2, f \div 2, g \div 2)

Xor3(x, y, z) == <<Xor16(x[1], y[1], z[1]), Xor16(x[2], y[2], z[2])>>
Maj(x, y, z) == <<Maj16(x[1], y[1], z[1]), Maj16(x[2], y[2], z[2])>>
Ch(x, y, z) == <<Ch16(x[1], y[1], z[1]), Ch16(x[2], y[2], z[2])>>

\* rotation and shift to the right by n bits
RotLow(x, n) ==
  <<(x[1] \div 2^n) + (x[2] % 2^n) * 2^(16 - n),
    (x[2] \div 2^n) + (x[1] % 2^n) * 2^(16 - n)>>
RotR(x, n) == IF n < 16 THEN RotLow(x, n) ELSE RotLow(<<x[2], x[1]>>, n - 16)
ShR(x, n) == <<x[1] \div 2^n, (x[2] \div 2^n) + (x[1] % 2^n) * 2^(16 - n)>>

\* addition modulo 2^32
Add(x, y) ==
  LET lo == x[2] + y[2] IN <<(x[1] + y[1] + (lo \div 65536)) % 65536, lo % 65536>>

BigSigma0(x) == Xor3(RotR(x, 2), RotR(x, 13), RotR(x, 22))
BigSigma1(x) == Xor3(RotR(x, 6), RotR(x, 11), RotR(x, 25))
SmallSigma0(x) == Xor3(RotR(x, 7), RotR(x, 18), ShR(x, 3))
SmallSigma1(x) == Xor3(RotR(x, 17), RotR(x, 19), ShR(x, 10))

\* the message schedule of one block of 16 words
RECURSIVE Schedule(_)
Schedule(w) ==
  IF Len(w) = 64 THEN w
  ELSE LET t == Len(w) + 1 IN
    Schedule(Append(w, Add(Add(SmallSigma1(w[t - 2]), w[t - 7]),
                           Add(SmallSigma0(w[t - 15]), w[t - 16]))))

\* one round of the compression function
Round(s, w, t) ==
  LET t1 == Add(Add(Add(s[8], BigSigma1(s[5])), Ch(s[5], s[6], s[7])),
                Add(K256[t], w[t]))
      t2 == Add(BigSigma0(s[1]), Maj(s[1], s[2], s[3]))
  IN <<Add(t1, t2), s[1], s[2], s[3], Add(s[4], t1), s[5], s[6], s[7]>>

\* the working variables after each of the 64 rounds, the initial ones first
RECURSIVE Rounds(_, _)
Rounds(states, w) ==
  IF Len(states) = 65 THEN states
  ELSE Rounds(Append(states, Round(states[Len(states)], w, Len(states))), w)

Compress(h, block) ==
  LET s == Rounds(<<h>>, Schedule(block))[65] IN [i \in 1..8 |-> Add(h[i], s[i])]

\* the message, the byte 0x80, zeros up to 56 modulo 64, the bit length
Pad(bytes) ==
  LET n == Len(bytes)
      zeros == (119 - n) % 64
      bits == 8 * n
  IN bytes \o <<128>> \o [i \in 1..zeros |-> 0] \o <<0, 0, 0, 0>>
       \o <<bits \div 16777216, (bits \div 65536) % 256, (bits \div 256) % 256, bits % 256>>

\* big-endian words of a padded message
WordsOf(p) ==
  [i \in 1..(Len(p) \div 4) |->
     <<p[4 * i - 3] * 256 + p[4 * i - 2], p[4 * i - 1] * 256 + p[4 * i]>>]

RECURSIVE HashBlocks(_, _)
HashBlocks(h, ws) ==
  IF ws = <<>> THEN h
  ELSE HashBlocks(Compress(h, SubSeq(ws, 1, 16)), SubSeq(ws, 17, Len(ws)))

\* hasher.update(bytes); hasher.finalize(): eight words
Sha256(bytes) == HashBlocks(H256, WordsOf(Pad(bytes)))

\* format!("{:x}", ..): two lower-case hexadecimal digits per byte
HexDigit(d) == IF d < 10 THEN 48 + d ELSE 87 + d
Hex16(h) ==
  <<HexDigit(h \div 4096), HexDigit((h \div 256) % 16),
    HexDigit((h \div 16) % 16), HexDigit(h % 16)>>
RECURSIVE LowerHex(_)
LowerHex(ws) ==
  IF ws = <<>> THEN <<>>
  ELSE Hex16(Head(ws)[1]) \o Hex16(Head(ws)[2]) \o LowerHex(Tail(ws))

(***************************************************************************)
(* State                                                                   *)
(***************************************************************************)
VARIABLES
  now,        \* wall clock (SystemTime::now()), in ticks
  ttl,        \* Cache.ttl_seconds
  dirExists,  \* whether Cache.cache_dir exists on disk
  files,      \* cache file name -> the entry file stored under it
  clearPc,    \* position of a running clear(): "idle" or "removed"
  probe,      \* the running / last is_valid call
  loadRes,    \* the result of the last load call
  saveRes,    \* the result of the last save call
  savedAt,    \* cache file name -> clock reading of the last successful save
  savedRepos, \* cache file name -> the records of the last successful save
  input,      \* SpecCodec: the record sequence handed to save
  rawInput,   \* SpecCodec: file contents written by something other than save
  clearRes    \* the result of the last clear call

cacheVars == <<now, ttl, dirExists, files, clearPc, probe, loadRes, saveRes,
               savedAt, savedRepos, input, rawInput, clearRes>>

VARIABLES
  tree,       \* real path -> [kind, readable, target]
  ignored,    \* names matched by the ignore rules in force under the root
  dirOrder,   \* the order in which read_dir lists a directory
  basePath,   \* scan_repos argument base_path
  maxDepth,   \* scan_repos argument max_depth
  scanPc,     \* "idle", "walking", "done" (Ok) or "failed" (Err)
  walk,       \* the walker: pending entries, the repos pushed so far, and the
              \* number of loop iterations made
  scanOut     \* the vector scan_repos returns

scanVars == <<tree, ignored, dirOrder, basePath, maxDepth, scanPc, walk, scanOut>>

VARIABLES
  writers,    \* save calls in flight: writer -> [pc, repos]
  begun,      \* the record sequences handed to save so far
  lastSaved   \* the record sequence of the save that returned last

raceVars == <<writers, begun, lastSaved>>

VARIABLES
  keyIn,      \* SpecKey: the two search paths whose entry names are asked for
  keyOut      \* SpecKey: the entry name computed for each, <<>> before the call

keyVars == <<keyIn, keyOut>>

VARIABLES
  fmtIn,      \* SpecFormat: a duration and its negation, in clock ticks
  fmtOut      \* SpecFormat: the phrase format_duration returned for each

fmtVars == <<fmtIn, fmtOut>>

VARIABLES
  pvRepo,     \* SpecPreview: the repository at the previewed path
  pvIn,       \* SpecPreview: two preview configurations
  pvOut       \* SpecPreview: what generate_preview did under each

pvVars == <<pvRepo, pvIn, pvOut>>

VARIABLES
  nav         \* SpecNav: the running / last navigation run

navVars == <<nav>>

VARIABLES
  cfgIn,      \* SpecConfig: the config files, the custom path, the environment
  cfgOut      \* SpecConfig: what Config::load returned

cfgVars == <<cfgIn, cfgOut>>

\* the variables of the operations outside the cache store and the scanner
extVars == <<raceVars, keyVars, fmtVars, pvVars, navVars, cfgVars>>
nonRaceExt == <<keyVars, fmtVars, pvVars, navVars, cfgVars>>
nonKeyExt == <<raceVars, fmtVars, pvVars, navVars, cfgVars>>
nonFmtExt == <<raceVars, keyVars, pvVars, navVars, cfgVars>>
nonPvExt == <<raceVars, keyVars, fmtVars, navVars, cfgVars>>
nonNavExt == <<raceVars, keyVars, fmtVars, pvVars, cfgVars>>
nonCfgExt == <<raceVars, keyVars, fmtVars, pvVars, navVars>>

vars == <<cacheVars, scanVars, extVars>>

\* two search paths: "a" and "a/"
Slash == 47
SearchPaths == {<<CharA>>, <<CharA, Slash>>}

\* to_string_lossy().as_bytes(): the UTF-8 bytes of the path, an undecodable
\* byte replaced by U+FFFD (EF BF BD)
RECURSIVE LossyBytes(_)
LossyBytes(path) ==
  IF path = <<>> THEN <<>>
  ELSE (IF Head(path) \in {BAD, REPL} THEN <<239, 191, 189>> ELSE <<Head(path)>>)
         \o LossyBytes(Tail(path))

\* &hash[..16]
FingerprintMutTrimSeparator(search_path) ==
  SubSeq(LowerHex(Sha256(LossyBytes(
    IF search_path # <<>> /\ search_path[Len(search_path)] = Slash
      THEN SubSeq(search_path, 1, Len(search_path) - 1) ELSE search_path))), 1, 16)
Fingerprint(search_path) == SubSeq(LowerHex(Sha256(LossyBytes(search_path))), 1, 16)

\* format!("repos_{}.cache", ..): the file name below cache_dir
EntryName(search_path) ==
  <<114, 101, 112, 111, 115, 95>> \o Fingerprint(search_path)
    \o <<46, 99, 97, 99, 104, 101>>

\* the search path of the navigation runs: "/r"
NavSearchPath == <<Slash, 114>>

\* the search paths given to the cache, with the entry name of each
KeyInputs == StrOver({CharA, Slash}, MaxKeyLen)
EntryNameTable == {<<sp, EntryName(sp)>> : sp \in KeyInputs \cup {NavSearchPath}}

cache_file_path(search_path) ==
  (CHOOSE e \in EntryNameTable : e[1] = search_path)[2]

CacheFiles == {cache_file_path(sp) : sp \in SearchPaths \cup {NavSearchPath}}

NoFile == [exists |-> FALSE, contents |-> <<>>, mtime |-> 0]
File(c, t) == [exists |-> TRUE, contents |-> c, mtime |-> t]

IdleProbe == [pc |-> "idle", path |-> <<>>, result |-> FALSE]
NoLoad == [called |-> FALSE, path |-> <<>>, ok |-> FALSE, repos |-> <<>>]
NoSave == [called |-> FALSE, path |-> <<>>, ok |-> FALSE, repos |-> <<>>]
NeverSaved == -1
NoClear == [called |-> FALSE, found |-> FALSE, count |-> 0, bytes |-> 0]

\* a finished call's result is consumed before the next step of any process
Consumed ==
  /\ probe' = IF probe.pc = "done" THEN IdleProbe ELSE probe
  /\ loadRes' = NoLoad
  /\ saveRes' = NoSave
  /\ clearRes' = NoClear

\* the cache right after Cache::new, before any save
CacheInit ==
  /\ now = 0
  /\ dirExists = TRUE
  /\ files = [k \in CacheFiles |-> NoFile]
  /\ clearPc = "idle"
  /\ probe = IdleProbe
  /\ loadRes = NoLoad
  /\ saveRes = NoSave
  /\ savedAt = [k \in CacheFiles |-> NeverSaved]
  /\ savedRepos = [k \in CacheFiles |-> <<>>]
  /\ clearRes = NoClear

\* no save is in flight
Writers == 1..MaxWriters
IdleWriter == [pc |-> "idle", path |-> <<>>, repos |-> <<>>]
RaceIdle ==
  /\ writers = [w \in Writers |-> IdleWriter]
  /\ begun = {}
  /\ lastSaved = <<>>

NoName == <<>>
KeyIdle ==
  /\ keyIn = <<>>
  /\ keyOut = <<>>

NoPhrase == <<>>
FmtIdle ==
  /\ fmtIn = <<>>
  /\ fmtOut = <<>>

NoPreview == <<>>
PvIdle ==
  /\ pvRepo = <<>>
  /\ pvIn = <<>>
  /\ pvOut = <<>>

\* no navigation run has started
NoCli == <<>>
NoConfig == <<>>
NoExit == -1
IdleNav ==
  [pc |-> "idle", cli |-> NoCli, config |-> NoConfig, max_depth |-> 0,
   ops |-> <<>>, repos |-> <<>>, err |-> "", exit |-> NoExit, out |-> <<>>]
NavIdle == nav = IdleNav

NotLoaded == <<>>
CfgIdle ==
  /\ cfgIn = <<>>
  /\ cfgOut = NotLoaded

\* nothing outside the cache store and the scanner is running
ExtIdle ==
  /\ RaceIdle
  /\ KeyIdle
  /\ FmtIdle
  /\ PvIdle
  /\ NavIdle
  /\ CfgIdle

(***************************************************************************)
(* The clock                                                               *)
(***************************************************************************)
Tick ==
  /\ now < MaxTime
  /\ now' = now + 1
  /\ Consumed
  /\ UNCHANGED <<ttl, dirExists, files, clearPc, savedAt, savedRepos,
                 input, rawInput, scanVars, extVars>>

\* SystemTime is the wall clock: it can be set back, which is the case
\* is_valid's duration_since(..) Err arm exists for
ClockStepBack ==
  /\ \E t \in 0..(now - 1) : now' = t
  /\ Consumed
  /\ UNCHANGED <<ttl, dirExists, files, clearPc, savedAt, savedRepos,
                 input, rawInput, scanVars, extVars>>

(***************************************************************************)
(* Cache::new                                                              *)
(***************************************************************************)
CacheNew ==
  /\ ~dirExists
  /\ dirExists' = TRUE
  /\ Consumed
  /\ UNCHANGED <<now, ttl, files, clearPc, savedAt, savedRepos,
                 input, rawInput, scanVars, extVars>>

(***************************************************************************)
(* Cache::is_valid                                                         *)
(***************************************************************************)
\* now.duration_since(modified): Err when modified is later than now,
\* otherwise the elapsed time, of which as_secs() keeps the whole seconds
AgeSecs(t, modified) == (t - modified) \div TicksPerSec

\* the negation of is_valid's final expression `age < self.ttl_seconds`
ExpiredMutLe(age) == ~(age <= ttl)
Expired(age) == ~(age < ttl)

\* the part of is_valid after the exists() check
IsValidStat(f) ==
  IF ~f.exists THEN FALSE             \* fs::metadata / modified() fail
  ELSE IF now < f.mtime THEN FALSE    \* duration_since fails
  ELSE ~Expired(AgeSecs(now, f.mtime))

\* is_valid up to and including `if !cache_path.exists() { return false; }`
IsValidExists(sp) ==
  /\ probe.pc # "stat"
  /\ probe' = IF files[cache_file_path(sp)].exists
                THEN [pc |-> "stat", path |-> sp, result |-> FALSE]
                ELSE [pc |-> "done", path |-> sp, result |-> FALSE]
  /\ loadRes' = NoLoad
  /\ saveRes' = NoSave
  /\ clearRes' = NoClear
  /\ UNCHANGED <<now, ttl, dirExists, files, clearPc, savedAt, savedRepos,
                 input, rawInput, scanVars, extVars>>

\* the rest of is_valid: metadata, modified, age, the comparison with the TTL
IsValidAge ==
  /\ probe.pc = "stat"
  /\ probe' = [probe EXCEPT !.pc = "done",
                 !.result = IsValidStat(files[cache_file_path(probe.path)])]
  /\ loadRes' = NoLoad
  /\ saveRes' = NoSave
  /\ clearRes' = NoClear
  /\ UNCHANGED <<now, ttl, dirExists, files, clearPc, savedAt, savedRepos,
                 input, rawInput, scanVars, extVars>>

(***************************************************************************)
(* Cache::load and Cache::save                                             *)
(***************************************************************************)
\* fs::read_to_string fails on a missing file and on bytes that are not UTF-8
ReadToString(f) == f.exists /\ ValidUtf8(f.contents)

Load(sp) ==
  LET f == files[cache_file_path(sp)] IN
  /\ loadRes' = IF ReadToString(f)
                  THEN [called |-> TRUE, path |-> sp, ok |-> TRUE,
                        repos |-> ParseContents(f.contents)]
                  ELSE [called |-> TRUE, path |-> sp, ok |-> FALSE, repos |-> <<>>]
  /\ probe' = IF probe.pc = "done" THEN IdleProbe ELSE probe
  /\ saveRes' = NoSave
  /\ clearRes' = NoClear
  /\ UNCHANGED <<now, ttl, dirExists, files, clearPc, savedAt, savedRepos,
                 input, rawInput, scanVars, extVars>>

\* fs::write creates or truncates the file and stamps it with the current time
WrittenFileMutKeep(old, contents) ==
  File(contents, IF old.exists THEN old.mtime ELSE now)
WrittenFileMutNoTruncate(old, contents) ==
  File(contents \o SubSeq(old.contents, Len(contents) + 1, Len(old.contents)), now)
WrittenFile(old, contents) == File(contents, now)

Save(sp, repos) ==
  LET k == cache_file_path(sp) IN
  /\ IF dirExists
       THEN /\ files' = [files EXCEPT ![k] = WrittenFile(files[k], SaveContents(repos))]
            /\ savedAt' = [savedAt EXCEPT ![k] = now]
            /\ savedRepos' = [savedRepos EXCEPT ![k] = repos]
            /\ saveRes' = [called |-> TRUE, path |-> sp, ok |-> TRUE, repos |-> repos]
       ELSE /\ UNCHANGED <<files, savedAt, savedRepos>>
            /\ saveRes' = [called |-> TRUE, path |-> sp, ok |-> FALSE, repos |-> repos]
  /\ probe' = IF probe.pc = "done" THEN IdleProbe ELSE probe
  /\ loadRes' = NoLoad
  /\ clearRes' = NoClear
  /\ UNCHANGED <<now, ttl, dirExists, clearPc, input, rawInput, scanVars, extVars>>

(***************************************************************************)
(* Cache::clear                                                            *)
(***************************************************************************)
\* fs::remove_dir_all(&self.cache_dir), when the directory exists
ClearRemove ==
  /\ clearPc = "idle"
  /\ dirExists
  /\ files' = [k \in CacheFiles |-> NoFile]
  /\ savedAt' = [k \in CacheFiles |-> NeverSaved]
  /\ savedRepos' = [k \in CacheFiles |-> <<>>]
  /\ dirExists' = FALSE
  /\ clearPc' = "removed"
  /\ Consumed
  /\ UNCHANGED <<now, ttl, input, rawInput, scanVars, extVars>>

\* fs::create_dir_all(&self.cache_dir), and the return of Ok(())
ClearRecreate ==
  /\ clearPc = "removed"
  /\ dirExists' = TRUE
  /\ clearPc' = "idle"
  /\ probe' = IF probe.pc = "done" THEN IdleProbe ELSE probe
  /\ loadRes' = NoLoad
  /\ saveRes' = NoSave
  /\ clearRes' = [NoClear EXCEPT !.called = TRUE, !.found = TRUE]
  /\ UNCHANGED <<now, ttl, files, savedAt, savedRepos, input, rawInput, scanVars, extVars>>

(***************************************************************************)
(* Cache::save step by step: fs::write is File::create, which creates or   *)
(* truncates the file, followed by write_all on the new descriptor         *)
(***************************************************************************)
\* the bytes land at offset 0 of the file as it is then; what the file holds
\* beyond them stays
Overwrite(old, bytes) == bytes \o SubSeq(old, Len(bytes) + 1, Len(old))

\* cache_file_path, the formatting of the records and File::create
SaveCreate(w, sp, repos) ==
  LET k == cache_file_path(sp) IN
  /\ writers[w].pc = "idle"
  /\ IF dirExists
       THEN /\ files' = [files EXCEPT ![k] = File(<<>>, now)]
            /\ writers' = [writers EXCEPT ![w] =
                             [pc |-> "created", path |-> sp, repos |-> repos]]
            /\ begun' = begun \cup {repos}
            /\ saveRes' = NoSave
       ELSE /\ UNCHANGED <<files, writers, begun>>
            /\ saveRes' = [called |-> TRUE, path |-> sp, ok |-> FALSE, repos |-> repos]
  /\ probe' = IF probe.pc = "done" THEN IdleProbe ELSE probe
  /\ loadRes' = NoLoad
  /\ clearRes' = NoClear
  /\ UNCHANGED <<now, ttl, dirExists, clearPc, savedAt, savedRepos, input, rawInput,
                 lastSaved, scanVars, nonRaceExt>>

\* write_all and the return of Ok(())
SaveWriteAll(w) ==
  LET k == cache_file_path(writers[w].path)
      repos == writers[w].repos
      bytes == SaveContents(repos)
  IN
  /\ writers[w].pc = "created"
  /\ files[k].exists
  /\ files' = [files EXCEPT ![k] =
                 IF bytes = <<>> THEN @ ELSE File(Overwrite(@.contents, bytes), now)]
  /\ savedAt' = [savedAt EXCEPT ![k] = now]
  /\ savedRepos' = [savedRepos EXCEPT ![k] = repos]
  /\ saveRes' = [called |-> TRUE, path |-> writers[w].path, ok |-> TRUE, repos |-> repos]
  /\ writers' = [writers EXCEPT ![w] = IdleWriter]
  /\ lastSaved' = <<repos>>
  /\ probe' = IF probe.pc = "done" THEN IdleProbe ELSE probe
  /\ loadRes' = NoLoad
  /\ clearRes' = NoClear
  /\ UNCHANGED <<now, ttl, dirExists, clearPc, input, rawInput, begun, scanVars,
                 nonRaceExt>>

(***************************************************************************)
(* The file system seen by scan_repos                                      *)
(*                                                                         *)
(* A path is a sequence of names; a name is a sequence of bytes.  `tree`   *)
(* maps every existing real path to its node.  A link's target is a real  *)
(* path that is a directory, a file, or missing.                           *)
(***************************************************************************)
NameA == <<97>>
NameB == <<98>>
NameC == <<99>>
NameR == <<114>>
NameL == <<108>>
DotGit == <<46, 103, 105, 116>>
Unknown == <<117, 110, 107, 110, 111, 119, 110>>

Dir == [kind |-> "dir", readable |-> TRUE, target |-> <<>>]
LockedDir == [kind |-> "dir", readable |-> FALSE, target |-> <<>>]
RegularFile == [kind |-> "file", readable |-> TRUE, target |-> <<>>]
Link(t) == [kind |-> "link", readable |-> TRUE, target |-> t]
Missing == [kind |-> "missing", readable |-> FALSE, target |-> <<>>]

\* Path::parent and Path::file_name
Parent(p) == SubSeq(p, 1, Len(p) - 1)
FileName(p) == p[Len(p)]

NodeAt(real) == IF real \in DOMAIN tree THEN tree[real] ELSE Missing

\* the real directory a path names, every link on the way followed
RECURSIVE RealDir(_)
RealDir(p) ==
  IF p = <<>> THEN <<>>
  ELSE LET q == RealDir(Parent(p)) \o <<FileName(p)>> IN
    IF NodeAt(q).kind = "link" THEN NodeAt(q).target ELSE q

\* symlink_metadata: the entry itself, a final link not followed
Lstat(p) == IF p = <<>> THEN Dir ELSE NodeAt(RealDir(Parent(p)) \o <<FileName(p)>>)

\* metadata: a final link followed
Stat(p) == IF p = <<>> THEN Dir ELSE NodeAt(RealDir(p))

\* Path::exists and Path::is_dir follow links
Exists(p) == Stat(p).kind # "missing"
IsDir(p) == Stat(p).kind = "dir"

\* byte-wise String comparison, a.name.cmp(&b.name) = Less
RECURSIVE StrLess(_, _)
StrLess(a, b) ==
  IF b = <<>> THEN FALSE
  ELSE IF a = <<>> THEN TRUE
  ELSE IF Head(a) # Head(b) THEN Head(a) < Head(b)
  ELSE StrLess(Tail(a), Tail(b))

\* the names read_dir yields for the directory p
EntryNames(p) == {FileName(q) : q \in {r \in DOMAIN tree : r # <<>> /\ Parent(r) = RealDir(p)}}

\* a set of names as a sequence, ascending
RECURSIVE Ascending(_)
Ascending(S) ==
  IF S = {} THEN <<>>
  ELSE LET m == CHOOSE x \in S : \A y \in S : y = x \/ StrLess(x, y)
       IN <<m>> \o Ascending(S \ {m})

Reverse(q) == [i \in 1..Len(q) |-> q[Len(q) + 1 - i]]

\* read_dir order is whatever the file system gives back
ReadDir(p) ==
  IF dirOrder = "asc" THEN Ascending(EntryNames(p)) ELSE Reverse(Ascending(EntryNames(p)))

(***************************************************************************)
(* scan_repos                                                              *)
(***************************************************************************)
\* GitRepo::new: the name is the final path segment, "unknown" without one
GitRepoNew(path) ==
  GitRepo(IF path = <<>> \/ ~ValidUtf8(FileName(path)) THEN Unknown
          ELSE FileName(path), path)

Entry(p, d) == [path |-> p, depth |-> d, err |-> FALSE]
ReadError(p, d) == [path |-> p, depth |-> d, err |-> TRUE]

\* follow_links(false): a directory is entered, a link is not, except that
\* the walk always enters the root it was given, link or not
EntersMutFollowLinks(item) == IsDir(item.path)
Enters(item) ==
  \/ Lstat(item.path).kind = "dir"
  \/ item.depth = 0 /\ Lstat(item.path).kind = "link" /\ IsDir(item.path)

\* max_depth(Some(max_depth)): entries deeper than max_depth are not produced
WithinDepth(item) == item.depth < maxDepth

\* the standard filters of WalkBuilder stay on (only hidden is switched off):
\* an entry matched by an ignore rule is skipped, with everything below it
NotIgnored(name) == name \notin ignored

\* what the walker produces after a directory entry: its children, or the
\* error of the failed read_dir
ChildrenMutPruneOnMatch(item) ==
  IF ~Stat(item.path).readable
    THEN <<ReadError(item.path, item.depth + 1)>>
    ELSE LET all == SelectSeq(ReadDir(item.path), NotIgnored)
             names == IF \E i \in 1..Len(all) : all[i] = DotGit
                        THEN <<DotGit>> ELSE all
         IN [i \in 1..Len(names) |->
               Entry(item.path \o <<names[i]>>, item.depth + 1)]
Children(item) ==
  IF ~Stat(item.path).readable
    THEN <<ReadError(item.path, item.depth + 1)>>
    ELSE LET names == SelectSeq(ReadDir(item.path), NotIgnored)
         IN [i \in 1..Len(names) |->
               Entry(item.path \o <<names[i]>>, item.depth + 1)]

\* the body of the for loop for an Ok entry
IsMarkerMutAnyKind(path) == FileName(path) = DotGit /\ Exists(path)
IsMarker(path) == FileName(path) = DotGit /\ IsDir(path)

Visit(repos, path) ==
  IF path # <<>> /\ IsMarker(path)
    THEN Append(repos, GitRepoNew(Parent(path)))
    ELSE repos

\* `Err(_) => continue`
SkipErrorMutBreak(w) == [w EXCEPT !.stack = <<>>]
SkipError(w) == [w EXCEPT !.stack = Tail(w.stack)]

\* one iteration of `for entry in walker`
WalkNext(w) ==
  LET item == Head(w.stack) IN
    IF item.err THEN SkipError(w)
    ELSE [w EXCEPT
            !.stack = (IF Enters(item) /\ WithinDepth(item)
                         THEN Children(item) ELSE <<>>) \o Tail(w.stack),
            !.repos = Visit(w.repos, item.path)]

\* repos.sort_by(|a, b| a.name.cmp(&b.name)): a stable sort
RECURSIVE InsertByNameMutBeforeEqual(_, _)
InsertByNameMutBeforeEqual(sorted, r) ==
  IF sorted = <<>> THEN <<r>>
  ELSE IF ~StrLess(Head(sorted).name, r.name) THEN <<r>> \o sorted
  ELSE <<Head(sorted)>> \o InsertByNameMutBeforeEqual(Tail(sorted), r)

RECURSIVE InsertByName(_, _)
InsertByName(sorted, r) ==
  IF sorted = <<>> THEN <<r>>
  ELSE IF StrLess(r.name, Head(sorted).name) THEN <<r>> \o sorted
  ELSE <<Head(sorted)>> \o InsertByName(Tail(sorted), r)

RECURSIVE SortByName(_)
SortByName(repos) ==
  IF repos = <<>> THEN <<>>
  ELSE InsertByName(SortByName(SubSeq(repos, 1, Len(repos) - 1)),
                    repos[Len(repos)])

NoWalk == [stack |-> <<>>, repos |-> <<>>, steps |-> 0]

\* the existence check and the construction of the walker
ScanStart ==
  /\ scanPc = "idle"
  /\ IF ~Exists(basePath)
       THEN scanPc' = "failed" /\ walk' = NoWalk
       ELSE /\ scanPc' = "walking"
            /\ walk' = [NoWalk EXCEPT !.stack = <<Entry(basePath, 0)>>]
  /\ UNCHANGED <<tree, ignored, dirOrder, basePath, maxDepth, scanOut, cacheVars, extVars>>

WalkStep ==
  /\ scanPc = "walking"
  /\ walk.stack # <<>>
  /\ walk' = [WalkNext(walk) EXCEPT !.steps = walk.steps + 1]
  /\ UNCHANGED <<tree, ignored, dirOrder, basePath, maxDepth, scanPc, scanOut,
                 cacheVars, extVars>>

\* the walker is exhausted: sort and return
ScanFinish ==
  /\ scanPc = "walking"
  /\ walk.stack = <<>>
  /\ scanPc' = "done"
  /\ scanOut' = SortByName(walk.repos)
  /\ UNCHANGED <<tree, ignored, dirOrder, basePath, maxDepth, walk, cacheVars, extVars>>

(***************************************************************************)
(* The trees scanned                                                       *)
(*                                                                         *)
(*   r/                    the real root; l -> r is a link to it, f a file *)
(*   r/.git/               optional                                        *)
(*   r/a                   absent, a directory, an unreadable directory,   *)
(*                         a link back to r (a cycle) or a link to r/b     *)
(*   r/a/.git              absent, directory, file, link to a directory,   *)
(*                         link to a file                                  *)
(*   r/a/a/.git/           optional: a repository nested in r/a            *)
(*   r/b/c/.git            absent, directory or file                       *)
(*   r/b/a/.git/           optional: a second repository named "a"         *)
(***************************************************************************)
NameF == <<102>>
NameX == <<120>>

RealRoot == <<NameR>>
LinkRoot == <<NameL>>
FileRoot == <<NameF>>
MissingRoot == <<NameX>>

EmptyTree == [p \in {} |-> Dir]

TopLevel ==
  (RealRoot :> Dir) @@ (LinkRoot :> Link(RealRoot)) @@ (FileRoot :> RegularFile)

RootGit(g) ==
  IF g = "dir" THEN (<<NameR, DotGit>> :> Dir) ELSE EmptyTree

SubAGit(ag) ==
  CASE ag = "dir" -> (<<NameR, NameA, DotGit>> :> Dir)
    [] ag = "file" -> (<<NameR, NameA, DotGit>> :> RegularFile)
    [] ag = "linkdir" -> (<<NameR, NameA, DotGit>> :> Link(RealRoot))
    [] ag = "linkfile" -> (<<NameR, NameA, DotGit>> :> Link(FileRoot))
    [] OTHER -> EmptyTree

SubAA(aa) ==
  IF aa = "repo"
    THEN (<<NameR, NameA, NameA>> :> Dir) @@ (<<NameR, NameA, NameA, DotGit>> :> Dir)
    ELSE EmptyTree

SubA(a, ag, aa) ==
  CASE a = "dir" -> (<<NameR, NameA>> :> Dir) @@ SubAGit(ag) @@ SubAA(aa)
    [] a = "locked" -> (<<NameR, NameA>> :> LockedDir) @@ SubAGit(ag) @@ SubAA(aa)
    [] a = "loop" -> (<<NameR, NameA>> :> Link(RealRoot))
    [] a = "tob" -> (<<NameR, NameA>> :> Link(<<NameR, NameB>>))
    [] OTHER -> EmptyTree

SubB(b) ==
  CASE b = "cdir" -> (<<NameR, NameB>> :> Dir) @@ (<<NameR, NameB, NameC>> :> Dir)
                       @@ (<<NameR, NameB, NameC, DotGit>> :> Dir)
    [] b = "cfile" -> (<<NameR, NameB>> :> Dir) @@ (<<NameR, NameB, NameC>> :> Dir)
                       @@ (<<NameR, NameB, NameC, DotGit>> :> RegularFile)
    [] b = "a" -> (<<NameR, NameB>> :> Dir) @@ (<<NameR, NameB, NameA>> :> Dir)
                       @@ (<<NameR, NameB, NameA, DotGit>> :> Dir)
    [] OTHER -> EmptyTree

TreeOf(g, a, ag, aa, b) == TopLevel @@ RootGit(g) @@ SubA(a, ag, aa) @@ SubB(b)

ScanTrees ==
  {TreeOf(g, "none", "none", "none", b) : g \in {"none", "dir"},
     b \in {"none", "cdir", "cfile", "a"}}
  \cup
  {TreeOf(g, a, ag, aa, b) : g \in {"none", "dir"}, a \in {"dir"},
     ag \in {"none", "dir", "file", "linkdir", "linkfile"},
     aa \in {"none", "repo"}, b \in {"none", "cdir", "cfile", "a"}}
  \cup
  {TreeOf(g, "locked", "dir", "repo", b) : g \in {"none", "dir"},
     b \in {"none", "cdir", "cfile", "a"}}
  \cup
  {TreeOf(g, a, "none", "none", b) : g \in {"none", "dir"}, a \in {"loop", "tob"},
     b \in {"none", "cdir", "cfile", "a"}}

\* the tree of the scanner example: r/a/.git/ and r/b/c/.git/
ExampleTree == TreeOf("none", "dir", "dir", "none", "cdir")

(***************************************************************************)
(* Specification of the scanner                                            *)
(***************************************************************************)
ScanIdle ==
  /\ scanPc = "idle"
  /\ walk = NoWalk
  /\ scanOut = <<>>

ScanInit ==
  /\ ScanIdle
  /\ tree \in ScanTrees
  /\ maxDepth \in 0..MaxScanDepth
  /\ \/ /\ basePath \in {RealRoot, LinkRoot}
        /\ ignored \in {{}, {NameA}}
        /\ dirOrder \in {"asc", "desc"}
     \/ /\ basePath \in {FileRoot, MissingRoot}
        /\ ignored = {}
        /\ dirOrder = "asc"
        /\ tree = ExampleTree
  /\ CacheInit
  /\ ttl = 1
  /\ input = <<>>
  /\ rawInput = <<>>
  /\ ExtIdle

ScanNext ==
  \/ ScanStart
  \/ WalkStep
  \/ ScanFinish

SpecScan == ScanInit /\ [][ScanNext]_vars /\ WF_vars(ScanNext)

\* no scan is running in the specifications of the cache
NoScan ==
  /\ ScanIdle
  /\ tree = ExampleTree
  /\ ignored = {}
  /\ dirOrder = "asc"
  /\ basePath = RealRoot
  /\ maxDepth = 1

(***************************************************************************)
(* Specification of the cache store                                        *)
(***************************************************************************)
RepoA == GitRepo(<<CharA>>, <<Slash, CharA>>)
RepoB == GitRepo(<<CharB>>, <<Slash, CharB>>)
SavedSeqs == {<<>>, <<RepoA, RepoB>>}

Init ==
  /\ CacheInit
  /\ ttl \in 0..MaxTtl
  /\ input = <<>>
  /\ rawInput = <<>>
  /\ NoScan
  /\ ExtIdle

Next ==
  \/ Tick
  \/ ClockStepBack
  \/ CacheNew
  \/ \E sp \in SearchPaths : IsValidExists(sp)
  \/ IsValidAge
  \/ \E sp \in SearchPaths : Load(sp)
  \/ \E sp \in SearchPaths, repos \in SavedSeqs : Save(sp, repos)
  \/ ClearRemove
  \/ ClearRecreate

Spec == Init /\ [][Next]_vars

TypeOK ==
  /\ now \in 0..MaxTime
  /\ ttl \in 0..MaxTtl
  /\ dirExists \in BOOLEAN
  /\ clearPc \in {"idle", "removed"}
  /\ probe.pc \in {"idle", "stat", "done"}
  /\ \A k \in CacheFiles : files[k].exists => dirExists

(***************************************************************************)
(* C1                                                                      *)
(***************************************************************************)
ProbedFile == files[cache_file_path(probe.path)]

\* C1 as stated: a finished is_valid call returned true if and only if the
\* entry file exists and now - file_mtime < ttl_seconds, and it returned
\* false whenever ttl_seconds = 0.
C1_AsStated ==
  probe.pc = "done" =>
    /\ probe.result <=>
         (ProbedFile.exists /\ now - ProbedFile.mtime < ttl * TicksPerSec)
    /\ ttl = 0 => ~probe.result

\* C1 amended: a finished is_valid call returned true if and only if the
\* entry file exists, its modification time is not later than the clock
\* reading, and now - file_mtime < ttl_seconds; it returns false (never an
\* error) otherwise, and always returns false when ttl_seconds = 0.
C1_IsValidIffFresh ==
  probe.pc = "done" =>
    /\ probe.result \in BOOLEAN
    /\ probe.result <=>
         /\ ProbedFile.exists
         /\ 0 <= now - ProbedFile.mtime
         /\ now - ProbedFile.mtime < ttl * TicksPerSec
    /\ ttl = 0 => ~probe.result

\* a probe of an existing entry, less than a whole TTL but not a whole number
\* of seconds old, answered true
C1_Witness ==
  /\ probe.pc = "done"
  /\ probe.result
  /\ ProbedFile.exists
  /\ (now - ProbedFile.mtime) % TicksPerSec # 0

(***************************************************************************)
(* C2                                                                      *)
(***************************************************************************)
ProbedSavedAt == savedAt[cache_file_path(probe.path)]

\* C2 as stated: after a successful save at clock reading t, not followed by
\* a save or clear of that entry, is_valid is true at every probe strictly
\* before t + ttl_seconds and false at every probe at or after it.
C2_AsStated ==
  (probe.pc = "done" /\ ProbedSavedAt # NeverSaved) =>
    (probe.result <=> now < ProbedSavedAt + ttl * TicksPerSec)

\* C2 amended: after a successful save at clock reading t, not followed by a
\* save or clear of that entry, is_valid is true at every probe whose clock
\* reading t' satisfies t <= t' < t + ttl_seconds, and false at every other
\* probe: at or after t + ttl_seconds, or before t (clock set back).
C2_FreshUntilTtl ==
  (probe.pc = "done" /\ ProbedSavedAt # NeverSaved) =>
    (probe.result <=>
       /\ ProbedSavedAt <= now
       /\ now < ProbedSavedAt + ttl * TicksPerSec)

\* an overwritten entry probed one tick before its TTL runs out
C2_Witness ==
  /\ probe.pc = "done"
  /\ probe.result
  /\ ProbedSavedAt > 0
  /\ now = ProbedSavedAt + ttl * TicksPerSec - 1

(***************************************************************************)
(* Specification of the file format: save and load over bounded inputs     *)
(***************************************************************************)
\* GitRepo.name is a String; GitRepo.path is a PathBuf, which on Unix may
\* hold bytes that are not UTF-8
NameChars == {CharA, CR}
PathChars == {CharB, CR, BAD}
RawChars == {TAB, LF, CR, CharA, BAD}

InputRepos ==
  {GitRepo(n, p) : n \in StrOver(NameChars, MaxNameLen),
                   p \in StrOver(PathChars, MaxPathLen)}
InputSeqs == StrOver(InputRepos, MaxRecords)
RawContents == StrOver(RawChars, MaxRawLen)

CodecPath == <<CharA>>

\* an entry file whose contents were not produced by save (the contents the
\* tests of load's parser are written against)
WriteRaw(sp, contents) ==
  LET k == cache_file_path(sp) IN
  /\ dirExists
  /\ files' = [files EXCEPT ![k] = File(contents, now)]
  /\ savedAt' = [savedAt EXCEPT ![k] = NeverSaved]
  /\ savedRepos' = [savedRepos EXCEPT ![k] = <<>>]
  /\ Consumed
  /\ UNCHANGED <<now, ttl, dirExists, clearPc, input, rawInput, scanVars, extVars>>

CodecSave == Save(CodecPath, input)
CodecWriteRaw == WriteRaw(CodecPath, rawInput)
CodecLoad == Load(CodecPath)

CodecInit ==
  /\ CacheInit
  /\ ttl = 1
  /\ \/ input \in InputSeqs /\ rawInput = <<>>
     \/ input = <<>> /\ rawInput \in RawContents
  /\ NoScan
  /\ ExtIdle

CodecNext ==
  \/ CodecSave
  \/ CodecWriteRaw
  \/ CodecLoad

SpecCodec == CodecInit /\ [][CodecNext]_vars

(***************************************************************************)
(* C3                                                                      *)
(***************************************************************************)
Contains(str, c) == \E i \in 1..Len(str) : str[i] = c

NoTabOrNewline(repos) ==
  \A i \in 1..Len(repos) :
    /\ ~Contains(repos[i].name, TAB) /\ ~Contains(repos[i].name, LF)
    /\ ~Contains(repos[i].path, TAB) /\ ~Contains(repos[i].path, LF)

LoadedFile == files[cache_file_path(loadRes.path)]
LoadedSavedAt == savedAt[cache_file_path(loadRes.path)]
LoadedSavedRepos == savedRepos[cache_file_path(loadRes.path)]

\* C3: a load that follows a successful save of records without tab or
\* newline in name and path returns exactly the saved records, in order.
C3_RoundTrip ==
  (loadRes.called /\ LoadedSavedAt # NeverSaved
     /\ NoTabOrNewline(LoadedSavedRepos)) =>
    (loadRes.ok /\ loadRes.repos = LoadedSavedRepos)

(***************************************************************************)
(* C4                                                                      *)
(***************************************************************************)
Count(str, c) == Cardinality({i \in 1..Len(str) : str[i] = c})

\* position of the k-th occurrence of c in str
NthPos(str, c, k) ==
  CHOOSE i \in 1..Len(str) :
    str[i] = c /\ Cardinality({j \in 1..i : str[j] = c}) = k

\* the lines of a text, read off the positions of its line feeds
TextLines(c) ==
  LET n == Count(c, LF)
      start(k) == IF k = 1 THEN 1 ELSE NthPos(c, LF, k - 1) + 1
      stop(k) == IF k <= n THEN NthPos(c, LF, k) - 1 ELSE Len(c)
      hasTail == n = 0 \/ NthPos(c, LF, n) < Len(c)
      total == IF c = <<>> THEN 0 ELSE IF hasTail THEN n + 1 ELSE n
      body(k) == SubSeq(c, start(k), stop(k))
      crlf(k) == k <= n /\ body(k) # <<>> /\ body(k)[Len(body(k))] = CR
  IN [k \in 1..total |->
        IF crlf(k) THEN SubSeq(body(k), 1, Len(body(k)) - 1) ELSE body(k)]

\* the indices of the lines with exactly one tab, i.e. exactly two fields
TwoFieldLines(ls) == {i \in 1..Len(ls) : Count(ls[i], TAB) = 1}

NthIn(S, k) == CHOOSE i \in S : Cardinality({j \in S : j <= i}) = k

\* C4: load fails only when the entry file cannot be read as text; otherwise
\* it returns, in file order, one record (name = first field, path = second
\* field) per line with exactly two tab-separated fields, and drops every
\* other line.
C4_LoadKeepsTwoFieldLines ==
  loadRes.called =>
    /\ loadRes.ok <=> (LoadedFile.exists /\ ValidUtf8(LoadedFile.contents))
    /\ loadRes.ok =>
         LET ls == TextLines(LoadedFile.contents)
             keep == TwoFieldLines(ls)
         IN /\ Len(loadRes.repos) = Cardinality(keep)
            /\ \A k \in 1..Len(loadRes.repos) :
                 LET line == ls[NthIn(keep, k)]
                     t == NthPos(line, TAB, 1)
                 IN /\ loadRes.repos[k].name = SubSeq(line, 1, t - 1)
                    /\ loadRes.repos[k].path = SubSeq(line, t + 1, Len(line))

\* a file with a well-formed line, a line without tab and a line with two
\* tabs was loaded as the single well-formed record
C4_Witness ==
  /\ loadRes.called /\ loadRes.ok
  /\ Len(loadRes.repos) = 1
  /\ \E i, j \in 1..Len(TextLines(LoadedFile.contents)) :
       /\ Count(TextLines(LoadedFile.contents)[i], TAB) = 0
       /\ Count(TextLines(LoadedFile.contents)[j], TAB) = 1

(***************************************************************************)
(* The cache store used by one process at a time: whole calls of save and  *)
(* clear, and the clear-cache command                                      *)
(***************************************************************************)
\* is_valid as one call
is_validMutAnyAge(sp) == files[cache_file_path(sp)].exists
is_valid(sp) ==
  LET f == files[cache_file_path(sp)] IN f.exists /\ IsValidStat(f)

\* list_cache_files: the *.cache files of the storage area, sorted
list_cache_files ==
  IF ~dirExists THEN <<>> ELSE Ascending({k \in CacheFiles : files[k].exists})

\* metadata.len(): the size in bytes, U+FFFD taking three
RECURSIVE ByteLen(_)
ByteLen(contents) ==
  IF contents = <<>> THEN 0
  ELSE (IF Head(contents) = REPL THEN 3 ELSE 1) + ByteLen(Tail(contents))

RECURSIVE SumSizes(_)
SumSizes(names) ==
  IF names = <<>> THEN 0
  ELSE ByteLen(files[Head(names)].contents) + SumSizes(Tail(names))

get_cache_size == SumSizes(list_cache_files)

\* fs::remove_dir_all(&self.cache_dir): every entry goes, whatever its key
RemoveDirAllMutOneEntry(fs) ==
  [k \in DOMAIN fs |-> IF k = cache_file_path(<<CharA>>) THEN NoFile ELSE fs[k]]
RemoveDirAll(fs) == [k \in DOMAIN fs |-> NoFile]

\* Cache::clear as one call
Clear ==
  /\ IF dirExists
       THEN /\ files' = RemoveDirAll(files)
            /\ savedAt' = [k \in CacheFiles |-> NeverSaved]
            /\ savedRepos' = [k \in CacheFiles |-> <<>>]
            /\ clearRes' = [NoClear EXCEPT !.called = TRUE, !.found = TRUE]
       ELSE /\ UNCHANGED <<files, savedAt, savedRepos>>
            /\ clearRes' = [NoClear EXCEPT !.called = TRUE]
  /\ probe' = IF probe.pc = "done" THEN IdleProbe ELSE probe
  /\ loadRes' = NoLoad
  /\ saveRes' = NoSave
  /\ UNCHANGED <<now, ttl, dirExists, clearPc, input, rawInput, scanVars, extVars>>

\* the clear-cache command: Cache::new, the file list and the total size,
\* then clear unless --dry-run; count and bytes are the numbers it prints
ClearCacheCmd(dry_run) ==
  /\ dirExists' = TRUE
  /\ IF dry_run
       THEN /\ UNCHANGED <<files, savedAt, savedRepos>>
            /\ clearRes' = [NoClear EXCEPT !.count = Len(list_cache_files),
                                           !.bytes = get_cache_size]
       ELSE /\ files' = RemoveDirAll(files)
            /\ savedAt' = [k \in CacheFiles |-> NeverSaved]
            /\ savedRepos' = [k \in CacheFiles |-> <<>>]
            /\ clearRes' = [called |-> TRUE, found |-> TRUE,
                            count |-> Len(list_cache_files),
                            bytes |-> get_cache_size]
  /\ probe' = IF probe.pc = "done" THEN IdleProbe ELSE probe
  /\ loadRes' = NoLoad
  /\ saveRes' = NoSave
  /\ UNCHANGED <<now, ttl, clearPc, input, rawInput, scanVars, extVars>>

SeqNext ==
  \/ Tick
  \/ \E sp \in SearchPaths, repos \in SavedSeqs : Save(sp, repos)
  \/ \E sp \in SearchPaths : Load(sp)
  \/ Clear
  \/ \E dry_run \in BOOLEAN : ClearCacheCmd(dry_run)

SpecSeq == Init /\ [][SeqNext]_vars

RacePath == <<CharA>>
RacePayloads == {<<>>, <<RepoB>>, <<RepoA, RepoB>>}

RaceCreate == \E w \in Writers, repos \in RacePayloads : SaveCreate(w, RacePath, repos)
RaceWrite == \E w \in Writers : SaveWriteAll(w)
RaceLoad == Load(RacePath)

RaceInit ==
  /\ CacheInit
  /\ ttl = 1
  /\ input = <<>>
  /\ rawInput = <<>>
  /\ NoScan
  /\ ExtIdle

RaceNext ==
  \/ RaceCreate
  \/ RaceWrite
  \/ RaceLoad

SpecRace == RaceInit /\ [][RaceNext]_vars

(***************************************************************************)
(* C11                                                                     *)
(***************************************************************************)
AllWritersIdle == \A w \in Writers : writers[w].pc = "idle"

\* C11: with saves and loads of one entry running concurrently, every load
\* that succeeds returns the complete record sequence handed to one single
\* save (never an empty, truncated or merged one), and once all saves have
\* returned the entry holds the records of the save that returned last.
C11_NoTornRead ==
  /\ (loadRes.called /\ loadRes.ok) => loadRes.repos \in begun
  /\ (AllWritersIdle /\ lastSaved # <<>>) =>
       ParseContents(files[cache_file_path(RacePath)].contents) = lastSaved[1]

(***************************************************************************)
(* Specification of the cache key: cache_file_path applied to search paths *)
(* drawn from a bounded set                                                *)
(***************************************************************************)
\* one call of cache_file_path, made by is_valid, load or save
KeyCall(i) ==
  /\ keyOut[i] = NoName
  /\ keyOut' = [keyOut EXCEPT ![i] = cache_file_path(keyIn[i])]
  /\ UNCHANGED <<keyIn, cacheVars, scanVars, nonKeyExt>>

KeyInit ==
  /\ CacheInit
  /\ ttl = 1
  /\ input = <<>>
  /\ rawInput = <<>>
  /\ NoScan
  /\ RaceIdle
  /\ FmtIdle
  /\ PvIdle
  /\ NavIdle
  /\ CfgIdle
  /\ keyIn \in KeyInputs \X KeyInputs
  /\ keyOut = <<NoName, NoName>>

KeyNext == \E i \in 1..2 : KeyCall(i)

SpecKey == KeyInit /\ [][KeyNext]_vars

(***************************************************************************)
(* C13                                                                     *)
(***************************************************************************)
HexChars == (48..57) \cup (97..102)

\* repos_<16 hex characters>.cache
WellFormedName(name) ==
  /\ Len(name) = 28
  /\ SubSeq(name, 1, 6) = <<114, 101, 112, 111, 115, 95>>
  /\ \A i \in 7..22 : name[i] \in HexChars
  /\ SubSeq(name, 23, 28) = <<46, 99, 97, 99, 104, 101>>

\* C13: the entry name is a function of the search-path string alone: equal
\* strings give equal names, every name has the form repos_<16 lower-case
\* hexadecimal characters>.cache (28 characters), and a path and the same
\* path with a trailing separator appended get different names.
C13_KeyOfRawString ==
  /\ \A i \in 1..Len(keyOut) : keyOut[i] # NoName => WellFormedName(keyOut[i])
  /\ (Len(keyOut) = 2 /\ keyOut[1] # NoName /\ keyOut[2] # NoName) =>
       /\ keyIn[1] = keyIn[2] => keyOut[1] = keyOut[2]
       /\ keyIn[2] = keyIn[1] \o <<Slash>> => keyOut[1] # keyOut[2]

\* the names of "a" and of "a/" were computed
C13_Witness ==
  /\ keyIn = <<(<<CharA>>), (<<CharA, Slash>>)>>
  /\ keyOut[1] # NoName
  /\ keyOut[2] # NoName
  /\ keyOut[1] # keyOut[2]

(***************************************************************************)
(* format_duration                                                         *)
(***************************************************************************)
Abs(x) == IF x < 0 THEN -x ELSE x

\* chrono::Duration::num_seconds: the whole seconds, rounded toward zero
NumSecondsMutFloor(d) == IF d >= 0 THEN d \div TicksPerSec ELSE -((TicksPerSec - 1 - d) \div TicksPerSec)
NumSeconds(d) == IF d >= 0 THEN d \div TicksPerSec ELSE -((-d) \div TicksPerSec)

\* format!("{} <unit> ago", n)
Phrase(n, unit) == <<n, unit, "ago">>

format_durationMutInclusive(duration) ==
  LET seconds == Abs(NumSeconds(duration)) IN
    IF seconds < 60 THEN Phrase(seconds, "seconds")
    ELSE IF seconds < 3600 THEN Phrase(seconds \div 60, "minutes")
    ELSE IF seconds <= 86400 THEN Phrase(seconds \div 3600, "hours")
    ELSE IF seconds < 604800 THEN Phrase(seconds \div 86400, "days")
    ELSE IF seconds < 2592000 THEN Phrase(seconds \div 604800, "weeks")
    ELSE IF seconds < 31536000 THEN Phrase(seconds \div 2592000, "months")
    ELSE Phrase(seconds \div 31536000, "years")
format_durationMutNearest(duration) ==
  LET seconds == Abs(NumSeconds(duration)) IN
    IF seconds < 60 THEN Phrase(seconds, "seconds")
    ELSE IF seconds < 3600 THEN Phrase((seconds + 30) \div 60, "minutes")
    ELSE IF seconds < 86400 THEN Phrase((seconds + 1800) \div 3600, "hours")
    ELSE IF seconds < 604800 THEN Phrase((seconds + 43200) \div 86400, "days")
    ELSE IF seconds < 2592000 THEN Phrase((seconds + 302400) \div 604800, "weeks")
    ELSE IF seconds < 31536000 THEN Phrase((seconds + 1296000) \div 2592000, "months")
    ELSE Phrase((seconds + 15768000) \div 31536000, "years")
format_duration(duration) ==
  LET seconds == Abs(NumSeconds(duration)) IN
    IF seconds < 60 THEN Phrase(seconds, "seconds")
    ELSE IF seconds < 3600 THEN Phrase(seconds \div 60, "minutes")
    ELSE IF seconds < 86400 THEN Phrase(seconds \div 3600, "hours")
    ELSE IF seconds < 604800 THEN Phrase(seconds \div 86400, "days")
    ELSE IF seconds < 2592000 THEN Phrase(seconds \div 604800, "weeks")
    ELSE IF seconds < 31536000 THEN Phrase(seconds \div 2592000, "months")
    ELSE Phrase(seconds \div 31536000, "years")

\* one call of format_duration
FormatCall(i) ==
  /\ fmtOut[i] = NoPhrase
  /\ fmtOut' = [fmtOut EXCEPT ![i] = format_duration(fmtIn[i])]
  /\ UNCHANGED <<fmtIn, cacheVars, scanVars, nonFmtExt>>

\* the durations tried: the multiples of one second, of the 30 seconds of
\* the tests and of each bucket limit, each with up to a second less or more
Marks == {1, 30, 60, 3600, 86400, 604800, 2592000, 31536000}
Durations ==
  {0} \cup {k * l * TicksPerSec + d :
              k \in 1..MaxMultiple, l \in Marks, d \in (-TicksPerSec)..TicksPerSec}

FormatInit ==
  /\ CacheInit
  /\ ttl = 1
  /\ input = <<>>
  /\ rawInput = <<>>
  /\ NoScan
  /\ RaceIdle
  /\ KeyIdle
  /\ PvIdle
  /\ NavIdle
  /\ CfgIdle
  /\ \E d \in Durations : fmtIn = <<d, -d>>
  /\ fmtOut = <<NoPhrase, NoPhrase>>

FormatNext == \E i \in 1..2 : FormatCall(i)

SpecFormat == FormatInit /\ [][FormatNext]_vars

(***************************************************************************)
(* C14                                                                     *)
(***************************************************************************)
\* the buckets in ascending order: limit (exclusive), divisor, unit
Buckets ==
  <<<<60, 1, "seconds">>, <<3600, 60, "minutes">>, <<86400, 3600, "hours">>,
    <<604800, 86400, "days">>, <<2592000, 604800, "weeks">>,
    <<31536000, 2592000, "months">>>>

\* the phrase of the first bucket whose limit exceeds s, "years" when none does
Expected(s) ==
  IF \E i \in 1..Len(Buckets) : s < Buckets[i][1]
    THEN LET i == CHOOSE j \in 1..Len(Buckets) :
                    s < Buckets[j][1] /\ \A m \in 1..(j - 1) : s >= Buckets[m][1]
         IN <<s \div Buckets[i][2], Buckets[i][3], "ago">>
    ELSE <<s \div 31536000, "years", "ago">>

\* the whole seconds in the magnitude of a duration
Magnitude(d) == Abs(d) \div TicksPerSec

\* C14: for a duration of magnitude s whole seconds format_duration returns
\* the phrase of the first bucket, in ascending order, whose limit exceeds
\* s, with the quotient rounded down; each limit belongs to the bucket above
\* it (60 s is "1 minutes ago", 3600 s "1 hours ago", 604800 s "1 weeks
\* ago", 2592000 s "1 months ago", 31536000 s "1 years ago").
C14_FirstMatchingBucket ==
  \A i \in 1..Len(fmtOut) :
    fmtOut[i] # NoPhrase =>
      LET s == Magnitude(fmtIn[i]) IN
        /\ fmtOut[i] = Expected(s)
        /\ s = 59 => fmtOut[i] = <<59, "seconds", "ago">>
        /\ s = 60 => fmtOut[i] = <<1, "minutes", "ago">>
        /\ s = 3600 => fmtOut[i] = <<1, "hours", "ago">>
        /\ s = 86400 => fmtOut[i] = <<1, "days", "ago">>
        /\ s = 604800 => fmtOut[i] = <<1, "weeks", "ago">>
        /\ s = 2592000 => fmtOut[i] = <<1, "months", "ago">>
        /\ s = 31536000 => fmtOut[i] = <<1, "years", "ago">>

\* a duration of exactly 30 days was formatted
C14_Witness ==
  /\ fmtIn[1] = 2592000 * TicksPerSec
  /\ fmtOut[1] = <<1, "months", "ago">>

(***************************************************************************)
(* C15                                                                     *)
(***************************************************************************)
Units == {"seconds", "minutes", "hours", "days", "weeks", "months", "years"}

\* C15: format_duration returns a phrase for every duration, and the phrase
\* of a duration and of its negation are the same.
C15_SignSymmetric ==
  /\ \A i \in 1..Len(fmtOut) :
       fmtOut[i] # NoPhrase =>
         fmtOut[i][1] \in Nat /\ fmtOut[i][2] \in Units
  /\ \A i \in 1..Len(fmtOut) : fmtOut[i] = NoPhrase => ENABLED FormatCall(i)
  /\ (Len(fmtOut) = 2 /\ fmtOut[1] # NoPhrase /\ fmtOut[2] # NoPhrase) =>
       fmtOut[1] = fmtOut[2]

\* 30.5 seconds and -30.5 seconds were both formatted
C15_Witness ==
  /\ fmtIn = <<30 * TicksPerSec + 1, -(30 * TicksPerSec + 1)>>
  /\ fmtOut[1] = <<30, "seconds", "ago">>
  /\ fmtOut[2] = <<30, "seconds", "ago">>

(***************************************************************************)
(* generate_preview                                                        *)
(*                                                                         *)
(* A repository is what git2 answers for it: whether it opens, what head() *)
(* gives, whether head peels to a commit and that commit's time, what      *)
(* statuses() gives, and the history the revwalk yields from head.         *)
(***************************************************************************)
PreviewPath == <<NameR, NameA>>

\* what repo.statuses(None) gives
StatusErr == [ok |-> FALSE, entries |-> <<>>]
StatusOk(entries) == [ok |-> TRUE, entries |-> entries]

Unopenable ==
  [openable |-> FALSE, head |-> "none", peels |-> FALSE, seconds |-> 0,
   statuses |-> StatusErr, history |-> <<>>]

CommitIdA == [i \in 1..40 |-> CharA]
CommitIdB == [i \in 1..40 |-> CharB]
CommitA == [id |-> CommitIdA, message |-> <<CharA, LF, CharB>>]
CommitB == [id |-> CommitIdB, message |-> <<>>]
Histories == {h \in {<<CommitA>>, <<CommitA, CommitB>>, <<CommitB, CommitA, CommitB>>} :
                Len(h) <= MaxCommits + 1}

\* status entries: [index, modified, new]
Clean == <<>>
Dirty ==
  <<[index |-> TRUE, modified |-> TRUE, new |-> FALSE],
    [index |-> FALSE, modified |-> FALSE, new |-> TRUE]>>

\* the seconds of a head commit's time: before the epoch, at the clock
\* reading of the model (0), after it
CommitTimes == {-1, 0, 2}

Repos ==
  {Unopenable}
  \cup {[openable |-> TRUE, head |-> "none", peels |-> FALSE, seconds |-> 0,
          statuses |-> st, history |-> <<>>] : st \in {StatusErr, StatusOk(Clean), StatusOk(Dirty)}}
  \cup {[openable |-> TRUE, head |-> hd, peels |-> FALSE, seconds |-> 0,
          statuses |-> st, history |-> <<>>] :
            hd \in {"branch", "detached"}, st \in {StatusErr, StatusOk(Clean), StatusOk(Dirty)}}
  \cup {[openable |-> TRUE, head |-> hd, peels |-> TRUE, seconds |-> t,
          statuses |-> st, history |-> h] :
            hd \in {"branch", "detached"}, t \in CommitTimes,
            st \in {StatusErr, StatusOk(Clean), StatusOk(Dirty)}, h \in Histories}

PreviewConfigs ==
  [show_branch : BOOLEAN, show_last_activity : BOOLEAN, show_status : BOOLEAN,
   recent_commits : 0..MaxCommits, date_format_ok : BOOLEAN]

Blank == <<>>

\* if config.show_branch { if let Ok(head) = repo.head() { .. } }
BranchLines(repo, config) ==
  IF config.show_branch /\ repo.head # "none"
    THEN <<(<<"Branch:", IF repo.head = "branch" THEN "main" ELSE "(detached HEAD)">>)>>
    ELSE <<>>

\* UNIX_EPOCH + Duration::from_secs(time.seconds() as u64): the cast maps
\* negative seconds to 2^64 - |seconds|, and adding that to the epoch
\* overflows SystemTime, which panics
ActivityPanics(repo, config) ==
  /\ config.show_last_activity
  /\ repo.head # "none"
  /\ repo.peels
  /\ \/ repo.seconds < 0
     \/ ~config.date_format_ok   \* to_string() of a format that cannot be rendered

\* the last-activity section; the empty line is pushed whenever the section
\* is switched on
ActivityLines(repo, config) ==
  IF ~config.show_last_activity THEN <<>>
  ELSE (IF repo.head # "none" /\ repo.peels
          THEN <<(<<"Last Activity:",
                    format_duration(now - repo.seconds * TicksPerSec),
                    repo.seconds>>)>>
          ELSE <<>>) \o <<Blank>>

Staged(st) == Cardinality({i \in 1..Len(st) : st[i].index})
Unstaged(st) == Cardinality({i \in 1..Len(st) : st[i].modified})
Untracked(st) == Cardinality({i \in 1..Len(st) : st[i].new})

StatusLines(repo, config) ==
  IF config.show_status /\ repo.statuses.ok
    THEN LET st == repo.statuses.entries IN
      <<(<<"Status:">>)>>
      \o (IF Staged(st) > 0 \/ Unstaged(st) > 0 \/ Untracked(st) > 0
            THEN (IF Staged(st) > 0 THEN <<(<<"+", Staged(st), "staged">>)>> ELSE <<>>)
              \o (IF Unstaged(st) > 0 THEN <<(<<"~", Unstaged(st), "unstaged">>)>> ELSE <<>>)
              \o (IF Untracked(st) > 0 THEN <<(<<"?", Untracked(st), "untracked">>)>> ELSE <<>>)
            ELSE <<(<<"Clean working tree">>)>>)
      \o <<Blank>>
    ELSE <<>>

\* the first line of a commit message, empty when there is none
FirstLine(message) == IF Lines(message) = <<>> THEN <<>> ELSE Lines(message)[1]

\* the heading is pushed whenever recent_commits > 0; the walk from head
\* yields nothing when head cannot be pushed
CommitLines(repo, config) ==
  IF config.recent_commits > 0
    THEN <<(<<"Recent commits:">>)>>
      \o [i \in 1..(IF Len(repo.history) < config.recent_commits
                      THEN Len(repo.history) ELSE config.recent_commits) |->
            <<"commit", SubSeq(repo.history[i].id, 1, 7),
              FirstLine(repo.history[i].message)>>]
    ELSE <<>>

generate_preview(repo, config) ==
  IF ~repo.openable THEN [outcome |-> "err", lines |-> <<>>]
  ELSE IF ActivityPanics(repo, config) THEN [outcome |-> "panic", lines |-> <<>>]
  ELSE [outcome |-> "ok",
        lines |-> <<(<<"Repository:", FileName(PreviewPath)>>),
                    (<<"Location:", PreviewPath>>), Blank>>
                  \o BranchLines(repo, config) \o ActivityLines(repo, config)
                  \o StatusLines(repo, config) \o CommitLines(repo, config)]

\* one call of generate_preview
PreviewCall(i) ==
  /\ pvOut[i] = NoPreview
  /\ pvOut' = [pvOut EXCEPT ![i] = generate_preview(pvRepo, pvIn[i])]
  /\ UNCHANGED <<pvRepo, pvIn, cacheVars, scanVars, nonPvExt>>

Sections == {"branch", "activity", "status", "commits"}

\* a configuration with one section switched off
Disabled(config, section) ==
  CASE section = "branch" -> [config EXCEPT !.show_branch = FALSE]
    [] section = "activity" -> [config EXCEPT !.show_last_activity = FALSE]
    [] section = "status" -> [config EXCEPT !.show_status = FALSE]
    [] section = "commits" -> [config EXCEPT !.recent_commits = 0]

PreviewInit ==
  /\ CacheInit
  /\ ttl = 1
  /\ input = <<>>
  /\ rawInput = <<>>
  /\ NoScan
  /\ RaceIdle
  /\ KeyIdle
  /\ FmtIdle
  /\ NavIdle
  /\ CfgIdle
  /\ pvRepo \in Repos
  /\ \E config \in PreviewConfigs, section \in Sections :
       pvIn = <<config, Disabled(config, section)>>
  /\ pvOut = <<NoPreview, NoPreview>>

PreviewNext == \E i \in 1..2 : PreviewCall(i)

SpecPreview == PreviewInit /\ [][PreviewNext]_vars

(***************************************************************************)
(* C16                                                                     *)
(***************************************************************************)
\* C16: generate_preview fails exactly when the path cannot be opened as a
\* repository; for every repository that opens and every configuration it
\* returns a preview, whatever head, status, history and the head commit's
\* time (negative included) are.
C16_FailsOnlyWhenUnopenable ==
  \A i \in 1..Len(pvOut) :
    pvOut[i] # NoPreview =>
      /\ pvOut[i].outcome = "err" <=> ~pvRepo.openable
      /\ pvRepo.openable => pvOut[i].outcome = "ok"

(***************************************************************************)
(* C17                                                                     *)
(***************************************************************************)
\* the section a line belongs to, by its label; the empty lines belong to none
SectionOf(line) ==
  IF line = Blank THEN "none"
  ELSE IF line[1] = "Branch:" THEN "branch"
  ELSE IF line[1] = "Last Activity:" THEN "activity"
  ELSE IF line[1] \in {"Status:", "+", "~", "?", "Clean working tree"} THEN "status"
  ELSE IF line[1] \in {"Repository:", "Location:"} THEN "header"
  ELSE "commits"

\* the repository has nothing to show in the section
Absent(repo, section) ==
  CASE section = "branch" -> repo.head = "none"
    [] section = "activity" -> repo.head = "none" \/ ~repo.peels
    [] section = "status" -> ~repo.statuses.ok
    [] section = "commits" -> repo.history = <<>>

\* the lines of the other sections
Others(lines, section) ==
  SelectSeq(lines, LAMBDA l : SectionOf(l) \notin {section, "none"})

\* the section the second configuration has switched off
Toggled ==
  CHOOSE section \in Sections : pvIn[2] = Disabled(pvIn[1], section)

\* C17: a section that is switched off or absent contributes no line, not
\* even an empty line or a bare heading: the output with a section switched
\* on but absent equals the output with it switched off, and switching one
\* section off leaves the lines of the other sections as they were.
C17_AbsentSectionAddsNothing ==
  (Len(pvOut) = 2 /\ pvOut[1] # NoPreview /\ pvOut[2] # NoPreview
     /\ pvOut[1].outcome = "ok" /\ pvOut[2].outcome = "ok") =>
    /\ \A k \in 1..Len(pvOut[2].lines) : SectionOf(pvOut[2].lines[k]) # Toggled
    /\ Absent(pvRepo, Toggled) => pvOut[1].lines = pvOut[2].lines
    /\ Others(pvOut[1].lines, Toggled) = Others(pvOut[2].lines, Toggled)

(***************************************************************************)
(* run_navigation                                                          *)
(***************************************************************************)
\* scan_repos as one call: the existence check, the walk to its end, the sort
RECURSIVE RunWalk(_)
RunWalk(w) == IF w.stack = <<>> THEN w ELSE RunWalk(WalkNext(w))

\* PathBuf as the string it displays as
PathString(path) == <<Slash>> \o Join(path, Slash)

scan_repos ==
  IF ~Exists(basePath) THEN [ok |-> FALSE, repos |-> <<>>]
  ELSE LET w == RunWalk([NoWalk EXCEPT !.stack = <<Entry(basePath, 0)>>])
           sorted == SortByName(w.repos)
       IN [ok |-> TRUE,
           repos |-> [i \in 1..Len(sorted) |->
                        GitRepo(sorted[i].name, PathString(sorted[i].path))]]

\* Config::validate
validateMutZeroHeight(config) ==
  ~ \/ config.max_depth = 0
    \/ config.preview_width_percent > 100
    \/ config.height_percent > 100
validate(config) ==
  ~ \/ config.max_depth = 0
    \/ config.preview_width_percent > 100
    \/ config.height_percent > 100
    \/ config.height_percent = 0

\* Config::default(), with the depth the trees of the model call for
DefaultConfig ==
  [max_depth |-> 2, enabled |-> TRUE, preview_width_percent |-> 60,
   height_percent |-> 90]

\* the configurations Config::load hands to a run: the default with the
\* depth and the cache switch varied, or with one percentage varied
NavConfigs ==
  {[DefaultConfig EXCEPT !.max_depth = d, !.enabled = e] :
     d \in {0, 2, MaxScanDepth}, e \in BOOLEAN}
  \cup {[DefaultConfig EXCEPT !.preview_width_percent = w] : w \in {0, 100, 101, 255}}
  \cup {[DefaultConfig EXCEPT !.height_percent = h] : h \in {0, 1, 100, 101}}

\* the command line: --force, --max-depth (None when absent), --list, --json;
\* `gitnav --list` with one more option, or the interactive run
None == -1
ListCli == [force |-> FALSE, max_depth |-> None, list |-> TRUE, json |-> FALSE]
NavClis ==
  {[ListCli EXCEPT !.force = f] : f \in BOOLEAN}
  \cup {[ListCli EXCEPT !.max_depth = d] : d \in {0, MaxScanDepth}}
  \cup {[ListCli EXCEPT !.json = TRUE], [ListCli EXCEPT !.list = FALSE]}

\* the entry of the run's search path; the depth is no part of the key
NavKeyMutByDepth ==
  cache_file_path(IF maxDepth = MaxScanDepth THEN <<CharA>> ELSE NavSearchPath)
NavKey == cache_file_path(NavSearchPath)

\* Config::load, validate, the search path and the depth
NavConfig(cli, config) ==
  /\ nav.pc = "idle"
  /\ IF validate(config)
       THEN /\ nav' = [IdleNav EXCEPT !.pc = "repos", !.cli = cli, !.config = config,
                         !.max_depth = IF cli.max_depth = None THEN config.max_depth
                                       ELSE cli.max_depth]
            /\ maxDepth' = IF cli.max_depth = None THEN config.max_depth
                           ELSE cli.max_depth
       ELSE /\ nav' = [IdleNav EXCEPT !.pc = "done", !.cli = cli, !.config = config,
                         !.err = "validate", !.exit = 1]
            /\ UNCHANGED maxDepth
  /\ UNCHANGED <<tree, ignored, dirOrder, basePath, scanPc, walk, scanOut,
                 cacheVars, nonNavExt>>

\* `if config.cache.enabled && !cli.force`: Cache::new and is_valid, or
\* straight to the scan
NavProbe ==
  /\ nav.pc = "repos"
  /\ IF nav.config.enabled /\ ~nav.cli.force
       THEN /\ dirExists' = TRUE
            /\ nav' = [nav EXCEPT
                         !.pc = IF is_valid(NavSearchPath) THEN "load" ELSE "scan",
                         !.ops = @ \o <<"new", "is_valid">>]
       ELSE /\ nav' = [nav EXCEPT !.pc = "scan"]
            /\ UNCHANGED dirExists
  /\ UNCHANGED <<now, ttl, files, clearPc, probe, loadRes, saveRes, savedAt,
                 savedRepos, input, rawInput, clearRes, scanVars, nonNavExt>>

\* cache.load(&search_path)?
NavLoadMutFallback ==
  /\ nav.pc = "load"
  /\ nav' = IF ReadToString(files[NavKey])
              THEN [nav EXCEPT !.pc = "output", !.ops = Append(@, "load"),
                               !.repos = ParseContents(files[NavKey].contents)]
              ELSE [nav EXCEPT !.pc = "scan", !.ops = Append(@, "load")]
  /\ UNCHANGED <<cacheVars, scanVars, nonNavExt>>
NavLoad ==
  /\ nav.pc = "load"
  /\ nav' = IF ReadToString(files[NavKey])
              THEN [nav EXCEPT !.pc = "output", !.ops = Append(@, "load"),
                               !.repos = ParseContents(files[NavKey].contents)]
              ELSE [nav EXCEPT !.pc = "done", !.ops = Append(@, "load"),
                               !.err = "load", !.exit = 1]
  /\ UNCHANGED <<cacheVars, scanVars, nonNavExt>>

\* scanner::scan_repos(&search_path, max_depth)?
NavScan ==
  /\ nav.pc = "scan"
  /\ nav' = IF scan_repos.ok
              THEN [nav EXCEPT
                      !.pc = IF nav.config.enabled /\ ~nav.cli.force
                               THEN "save" ELSE "output",
                      !.ops = Append(@, "scan"), !.repos = scan_repos.repos]
              ELSE [nav EXCEPT !.pc = "done", !.ops = Append(@, "scan"),
                               !.err = "scan", !.exit = 1]
  /\ UNCHANGED <<cacheVars, scanVars, nonNavExt>>

\* cache.save(&search_path, &repos)?
NavSaveMutSkipEmpty ==
  /\ nav.pc = "save"
  /\ IF dirExists /\ nav.repos # <<>>
       THEN /\ files' = [files EXCEPT
                           ![NavKey] = WrittenFile(@, SaveContents(nav.repos))]
            /\ savedAt' = [savedAt EXCEPT ![NavKey] = now]
            /\ savedRepos' = [savedRepos EXCEPT ![NavKey] = nav.repos]
            /\ nav' = [nav EXCEPT !.pc = "output", !.ops = Append(@, "save")]
       ELSE /\ UNCHANGED <<files, savedAt, savedRepos>>
            /\ nav' = [nav EXCEPT !.pc = "output", !.ops = Append(@, "save")]
  /\ UNCHANGED <<now, ttl, dirExists, clearPc, probe, loadRes, saveRes,
                 input, rawInput, clearRes, scanVars, nonNavExt>>
NavSave ==
  /\ nav.pc = "save"
  /\ IF dirExists
       THEN /\ files' = [files EXCEPT
                           ![NavKey] = WrittenFile(@, SaveContents(nav.repos))]
            /\ savedAt' = [savedAt EXCEPT ![NavKey] = now]
            /\ savedRepos' = [savedRepos EXCEPT ![NavKey] = nav.repos]
            /\ nav' = [nav EXCEPT !.pc = "output", !.ops = Append(@, "save")]
       ELSE /\ UNCHANGED <<files, savedAt, savedRepos>>
            /\ nav' = [nav EXCEPT !.pc = "done", !.ops = Append(@, "save"),
                                  !.err = "save", !.exit = 1]
  /\ UNCHANGED <<now, ttl, dirExists, clearPc, probe, loadRes, saveRes,
                 input, rawInput, clearRes, scanVars, nonNavExt>>

\* serde_json::to_string_pretty(&repos): one object per record
JsonOf(repos) ==
  [i \in 1..Len(repos) |-> [name |-> repos[i].name, path |-> repos[i].path]]

\* println!("{}", repo.path.display()) for each record
TextOfMutNameTab(repos) == [i \in 1..Len(repos) |-> FormatRepo(repos[i])]
TextOf(repos) == [i \in 1..Len(repos) |-> Display(repos[i].path)]

\* the empty check, --list, the fzf check and the selection
NavOutput ==
  /\ nav.pc = "output"
  /\ \/ /\ nav.repos = <<>>
        /\ nav' = [nav EXCEPT !.pc = "done", !.exit = 1]
     \/ /\ nav.repos # <<>>
        /\ nav.cli.list
        /\ nav' = [nav EXCEPT !.pc = "done", !.exit = 0,
                     !.out = IF nav.cli.json THEN JsonOf(nav.repos)
                             ELSE TextOf(nav.repos)]
     \/ /\ nav.repos # <<>>
        /\ ~nav.cli.list
        /\ \/ nav' = [nav EXCEPT !.pc = "done", !.exit = 69]   \* no fzf
           \/ nav' = [nav EXCEPT !.pc = "done", !.exit = 130]  \* cancelled
           \/ \E i \in 1..Len(nav.repos) :
                nav' = [nav EXCEPT !.pc = "done", !.exit = 0,
                          !.out = <<nav.repos[i].path>>]
  /\ UNCHANGED <<cacheVars, scanVars, nonNavExt>>

\* the process ends
NavExit ==
  /\ nav.pc = "done"
  /\ nav' = IdleNav
  /\ UNCHANGED <<cacheVars, scanVars, nonNavExt>>

\* the trees the runs scan: the search path gone, no repository below it,
\* or r/a and r/b/c
GoneTree == EmptyTree
NoRepoTree == TreeOf("none", "none", "none", "none", "none")
NavTrees == {GoneTree, NoRepoTree, ExampleTree}

\* between two runs the directories change, and the cache may be cleared
TreeChange ==
  /\ nav.pc = "idle"
  /\ tree' \in NavTrees \ {tree}
  /\ UNCHANGED <<ignored, dirOrder, basePath, maxDepth, scanPc, walk, scanOut,
                 cacheVars, extVars>>

NavTick == nav.pc = "idle" /\ now < MaxNavTime /\ Tick
NavClear == nav.pc = "idle" /\ Clear

NavInit ==
  /\ CacheInit
  /\ ttl \in {0, 1}
  /\ input = <<>>
  /\ rawInput = <<>>
  /\ ScanIdle
  /\ tree \in NavTrees
  /\ ignored = {}
  /\ dirOrder = "asc"
  /\ basePath = RealRoot
  /\ maxDepth = 1
  /\ ExtIdle

NavNext ==
  \/ \E cli \in NavClis, config \in NavConfigs : NavConfig(cli, config)
  \/ NavProbe
  \/ NavLoad
  \/ NavScan
  \/ NavSave
  \/ NavOutput
  \/ NavExit
  \/ TreeChange
  \/ NavTick
  \/ NavClear

SpecNav == NavInit /\ [][NavNext]_vars

(***************************************************************************)
(* Navigation runs beside another process that clears the cache            *)
(***************************************************************************)
\* Cache::new(..)? fails: the storage area is gone and cannot be created
NavNewFails ==
  /\ nav.pc = "repos"
  /\ nav.config.enabled /\ ~nav.cli.force
  /\ ~dirExists
  /\ nav' = [nav EXCEPT !.pc = "done", !.ops = Append(@, "new"),
                        !.err = "new", !.exit = 1]
  /\ UNCHANGED <<cacheVars, scanVars, nonNavExt>>

\* the runs of SpecNav on one tree, with the two steps of a clear() of
\* another process falling anywhere between theirs
NavRaceInit == NavInit /\ tree = ExampleTree /\ ttl = 1

NavRaceNext ==
  \/ \E cli \in NavClis, config \in NavConfigs : NavConfig(cli, config)
  \/ NavProbe
  \/ NavNewFails
  \/ NavLoad
  \/ NavScan
  \/ NavSave
  \/ NavOutput
  \/ NavExit
  \/ NavTick
  \/ ClearRemove
  \/ ClearRecreate

SpecNavRace == NavRaceInit /\ [][NavRaceNext]_vars

(***************************************************************************)
(* Navigation runs over a directory whose name holds a line feed           *)
(***************************************************************************)
\* r/"a<LF>z"/.git and r/b/.git
NameALfZ == <<CharA, LF, 122>>
LineFeedTree ==
  TopLevel @@ (<<NameR, NameALfZ>> :> Dir) @@ (<<NameR, NameALfZ, DotGit>> :> Dir)
    @@ (<<NameR, NameB>> :> Dir) @@ (<<NameR, NameB, DotGit>> :> Dir)
NamedTrees == {LineFeedTree, NoRepoTree}

TreeChangeNamed ==
  /\ nav.pc = "idle"
  /\ tree' \in NamedTrees \ {tree}
  /\ UNCHANGED <<ignored, dirOrder, basePath, maxDepth, scanPc, walk, scanOut,
                 cacheVars, extVars>>

NavNamedInit ==
  /\ CacheInit
  /\ ttl = 1
  /\ input = <<>>
  /\ rawInput = <<>>
  /\ ScanIdle
  /\ tree \in NamedTrees
  /\ ignored = {}
  /\ dirOrder = "asc"
  /\ basePath = RealRoot
  /\ maxDepth = 1
  /\ ExtIdle

NavNamedNext ==
  \/ \E cli \in NavClis, config \in NavConfigs : NavConfig(cli, config)
  \/ NavProbe
  \/ NavLoad
  \/ NavScan
  \/ NavSave
  \/ NavOutput
  \/ NavExit
  \/ TreeChangeNamed
  \/ NavTick
  \/ NavClear

SpecNavNamed == NavNamedInit /\ [][NavNamedNext]_vars

(***************************************************************************)
(* C18                                                                     *)
(***************************************************************************)
\* the operations a run has made
Did(op) == \E i \in 1..Len(nav.ops) : nav.ops[i] = op

\* a run with --force and the cache enabled has ended, its scan succeeded
ForcedRunEnded ==
  /\ nav.pc = "done"
  /\ nav.cli.force
  /\ nav.config.enabled
  /\ Did("scan")
  /\ nav.err = ""

\* C18: --force forces a cache refresh: when a run with --force (cache
\* enabled) has ended after a successful scan, the cache entry of the search
\* path holds the records of that scan, and (with a TTL above zero) is valid,
\* so that the next run without --force returns those records.
C18_ForceRefreshesEntry ==
  ForcedRunEnded =>
    /\ ReadToString(files[NavKey])
    /\ ParseContents(files[NavKey].contents) = nav.repos
    /\ ttl > 0 => is_valid(NavSearchPath)

(***************************************************************************)
(* C19                                                                     *)
(***************************************************************************)
\* one of the four conditions the claim lists
Violates(config) ==
  \/ config.max_depth = 0
  \/ config.preview_width_percent > 100
  \/ config.height_percent > 100
  \/ config.height_percent = 0

\* C19: a run whose configuration has max_depth = 0, a preview width above
\* 100, a height above 100 or a height of 0 ends with a validation error
\* and makes no cache operation and no scan; a configuration violating none
\* of these is accepted by validate(), and its run goes on.
C19_ValidatedBeforeAnyWork ==
  /\ nav.pc # "idle" /\ Violates(nav.config) =>
       nav.pc = "done" /\ nav.err = "validate" /\ nav.exit # 0 /\ nav.ops = <<>>
  /\ nav.pc # "idle" /\ ~Violates(nav.config) => nav.err # "validate"
  /\ nav.pc = "idle" =>
       \A config \in NavConfigs : ~Violates(config) => ENABLED
         (\E cli \in NavClis : NavConfig(cli, config) /\ nav'.pc = "repos")
  /\ nav.ops # <<>> => ~Violates(nav.config)

\* a run has ended with the validation error for a height of 0 while the
\* cache holds an entry for its search path
C19_Witness ==
  /\ nav.pc = "done"
  /\ nav.err = "validate"
  /\ nav.config.height_percent = 0
  /\ files[NavKey].exists

(***************************************************************************)
(* C21                                                                     *)
(***************************************************************************)
\* a run in listing mode has printed its list
Listed == nav.pc = "done" /\ nav.cli.list /\ nav.exit = 0

NavFresh ==
  /\ files[NavKey].exists
  /\ now >= files[NavKey].mtime
  /\ (now - files[NavKey].mtime) \div TicksPerSec < ttl

\* the entry file is what the last save of the search path wrote
EntryAsSaved ==
  files[NavKey].exists =>
    /\ files[NavKey].contents = SaveContents(savedRepos[NavKey])
    /\ files[NavKey].mtime = savedAt[NavKey]

\* the run has its records, or has failed getting them
PastRepos == nav.pc \in {"output", "done"} /\ nav.err # "validate"

\* C22: with the cache enabled and without --force, a valid entry is loaded
\* and nothing is scanned; otherwise the scan runs and its result is saved,
\* after it succeeded and before any output; a failed scan saves nothing and
\* leaves the entry as it was.  With the cache disabled the run makes no
\* cache operation.
C22_CacheDecidesSource ==
  /\ EntryAsSaved
  /\ PastRepos /\ nav.config.enabled /\ ~nav.cli.force =>
       \/ /\ nav.ops = <<"new", "is_valid", "load">>
          /\ NavFresh
          /\ nav.err = "" => nav.repos = savedRepos[NavKey]
       \/ /\ nav.ops = <<"new", "is_valid", "scan">>
          /\ nav.err = "scan"
          /\ ~NavFresh
          /\ nav.out = <<>>
       \/ /\ nav.ops = <<"new", "is_valid", "scan", "save">>
          /\ nav.err = ""
          /\ savedRepos[NavKey] = nav.repos
          /\ savedAt[NavKey] = now
          /\ files[NavKey].exists
  /\ PastRepos /\ ~nav.config.enabled => nav.ops = <<"scan">>
  /\ nav.out # <<>> /\ nav.config.enabled /\ ~nav.cli.force =>
       Did("load") \/ Did("save")

\* a run's scan has failed while an expired entry with records is in place
C22_Witness ==
  /\ nav.pc = "done"
  /\ nav.err = "scan"
  /\ nav.config.enabled
  /\ ~nav.cli.force
  /\ files[NavKey].exists
  /\ savedRepos[NavKey] # <<>>

(***************************************************************************)
(* C23                                                                     *)
(***************************************************************************)
\* C23: entries are keyed by the search path alone, not by the depth: the
\* runs on one search path, whatever their depths, use one entry, and a run
\* that finds it valid returns the records the earlier run saved, not the
\* result of a scan at its own depth.
C23_KeyedByPathAlone ==
  /\ \A k \in CacheFiles : files[k].exists => k = cache_file_path(NavSearchPath)
  /\ PastRepos /\ Did("load") /\ nav.err = "" =>
       nav.repos = savedRepos[cache_file_path(NavSearchPath)]

\* a run at depth MaxScanDepth has loaded the one record saved at depth 2,
\* while a scan at its own depth would find more
C23_Witness ==
  /\ nav.pc = "done"
  /\ Did("load")
  /\ nav.max_depth = MaxScanDepth
  /\ tree = ExampleTree
  /\ Len(nav.repos) = 1
  /\ Len(scan_repos.repos) > 1

(***************************************************************************)
(* C24                                                                     *)
(***************************************************************************)
\* the run has ended with the error of the cache operation op, which was
\* its last operation, and has printed nothing
AbortedBy(op) ==
  /\ nav.pc = "done"
  /\ nav.err = op
  /\ nav.exit # 0
  /\ nav.out = <<>>
  /\ nav.ops # <<>> /\ nav.ops[Len(nav.ops)] = op

\* C24: every cache I/O failure inside a run aborts the run with that error,
\* without a fallback to a fresh scan: a storage area that cannot be
\* created, a load that fails after is_valid returned true (the entry was
\* removed between the probe and the load), and a save that fails after a
\* successful scan, whose records are then not output.
C24_CacheFailureAborts ==
  [][/\ (nav.pc = "load" /\ nav' # nav /\ ~ReadToString(files[NavKey])) =>
          AbortedBy("load")' /\ ~Did("scan")'
     /\ (nav.pc = "save" /\ nav' # nav /\ ~dirExists) =>
          AbortedBy("save")' /\ nav'.repos = nav.repos
     /\ nav'.err = "new" => AbortedBy("new")' /\ nav'.ops = <<"new">>
     /\ (nav.err \in {"new", "load", "save"} /\ nav' # nav) => nav' = IdleNav
    ]_vars

\* a load has failed after the probe found the entry valid
C24_WitnessLoad == nav.err = "load" /\ nav.ops = <<"new", "is_valid", "load">>

(***************************************************************************)
(* C25                                                                     *)
(***************************************************************************)
\* a cached run has ended without an error of its own
CachedRunEnded ==
  /\ nav.pc = "done"
  /\ nav.err = ""
  /\ nav.config.enabled
  /\ ~nav.cli.force

\* C25: an empty scan result is cached before it is rejected: a cache-miss
\* run that finds no repository saves the empty sequence and exits with
\* code 1 before any listing or selection; a later run that finds this
\* entry valid exits with code 1 as well, without scanning, even when
\* repositories exist by then.
C25_EmptyResultCached ==
  /\ (CachedRunEnded /\ Did("scan") /\ nav.repos = <<>>) =>
       /\ nav.ops = <<"new", "is_valid", "scan", "save">>
       /\ files[NavKey].exists
       /\ files[NavKey].mtime = now
       /\ ParseContents(files[NavKey].contents) = <<>>
       /\ nav.exit = 1
       /\ nav.out = <<>>
  /\ (CachedRunEnded /\ Did("load") /\ ParseContents(files[NavKey].contents) = <<>>) =>
       /\ ~Did("scan")
       /\ nav.exit = 1
       /\ nav.out = <<>>

\* a run has exited with code 1 on a cached empty result while a scan at
\* its depth would find a repository
C25_Witness ==
  /\ CachedRunEnded
  /\ Did("load")
  /\ nav.exit = 1
  /\ scan_repos.ok
  /\ scan_repos.repos # <<>>

(***************************************************************************)
(* C26                                                                     *)
(***************************************************************************)
\* non-decreasing order of name
SortedByName(repos) ==
  \A i, j \in 1..Len(repos) : i < j => ~StrLess(repos[j].name, repos[i].name)

\* C26: in every run that reaches the listing or selector step, the records
\* handed on are in non-decreasing order of name, whether they came from a
\* fresh scan or from the cache.
C26_HandedOnSorted ==
  (nav.pc = "output" /\ nav.repos # <<>>) => SortedByName(nav.repos)

(***************************************************************************)
(* Scans started at any directory of the tree                              *)
(*                                                                         *)
(* scan_repos takes whatever path the caller names: r itself, a directory  *)
(* below it, or the directory r/.git                                       *)
(***************************************************************************)
GitRoot == <<NameR, DotGit>>
ScanRoots == {RealRoot, GitRoot, <<NameR, NameA>>, <<NameR, NameB>>}

ScanRootsInit ==
  /\ ScanIdle
  /\ tree \in ScanTrees
  /\ maxDepth \in 0..MaxScanDepth
  /\ basePath \in ScanRoots
  /\ ignored = {}
  /\ dirOrder \in {"asc", "desc"}
  /\ CacheInit
  /\ ttl = 1
  /\ input = <<>>
  /\ rawInput = <<>>
  /\ ExtIdle

SpecScanRoots == ScanRootsInit /\ [][ScanNext]_vars

(***************************************************************************)
(* C27                                                                     *)
(***************************************************************************)
\* p is root itself or lies below root
Within(root, p) == Len(root) <= Len(p) /\ SubSeq(p, 1, Len(root)) = root

\* C27: every record returned by scan(root, maxDepth) has a path that is
\* root itself or a descendant of root; scan never reports a directory
\* outside the tree rooted at root, in particular not the parent of root.
C27_RecordsWithinRoot ==
  scanPc = "done" => \A i \in 1..Len(scanOut) : Within(basePath, scanOut[i].path)

(***************************************************************************)
(* C28                                                                     *)
(***************************************************************************)
\* C28: in navigation mode the maximum depth passed to scan is always at
\* least 1: a depth of 0 is rejected before scanning whether it comes from
\* the configuration file, the GITNAV_MAX_DEPTH environment variable or the
\* --max-depth command-line option.
C28_ScanDepthAtLeastOne ==
  Did("scan") => nav.max_depth >= 1 /\ maxDepth >= 1

(***************************************************************************)
(* C29                                                                     *)
(***************************************************************************)
\* the step is a call of save, of load, or one of the two halves of is_valid
SaveStep == saveRes'.called
LoadStep == loadRes'.called
IsValidStep == probe' # probe /\ probe'.pc # "idle"

EntryOf(sp) == files[cache_file_path(sp)]

\* C29: save(p, records) changes only the entry file of p: for every search
\* path q whose fingerprint differs from p's, the content load(q) returns
\* and the freshness of q's entry are unchanged; is_valid and load change no
\* cache state at all, neither content nor modification time of any entry;
\* and a save(p, r2) after a save(p, r1) leaves load(p) = r2 with nothing of
\* r1 remaining.
C29_SaveTouchesOneEntry ==
  [][/\ SaveStep =>
          \A q \in SearchPaths :
            cache_file_path(q) # cache_file_path(saveRes'.path) =>
              /\ EntryOf(q)' = EntryOf(q)
              /\ is_valid(q)' = is_valid(q)
     /\ IsValidStep \/ LoadStep =>
          /\ files' = files
          /\ dirExists' = dirExists
     /\ SaveStep /\ saveRes'.ok =>
          LET written == files'[cache_file_path(saveRes'.path)] IN
            /\ written.exists
            /\ written.mtime = now
            /\ ParseContents(written.contents) = saveRes'.repos
     /\ LoadStep /\ loadRes'.ok =>
          loadRes'.repos = savedRepos[cache_file_path(loadRes'.path)]
    ]_vars

\* load(p) has just returned the empty sequence saved last for p, while the
\* entry of the other search path, saved earlier, still holds its records
C29_Witness ==
  \E p, q \in SearchPaths :
    /\ cache_file_path(q) # cache_file_path(p)
    /\ loadRes.called /\ loadRes.ok
    /\ loadRes.path = p
    /\ loadRes.repos = <<>>
    /\ EntryOf(p).exists
    /\ EntryOf(q).exists
    /\ EntryOf(q).mtime < EntryOf(p).mtime
    /\ ParseContents(EntryOf(q).contents) = <<RepoA, RepoB>>

(***************************************************************************)
(* C30                                                                     *)
(***************************************************************************)
\* the counts a unit may be printed with; years have no upper limit
CountRange(unit, s) ==
  CASE unit = "seconds" -> 0..59
    [] unit = "minutes" -> 1..59
    [] unit = "hours" -> 1..23
    [] unit = "days" -> 1..6
    [] unit = "weeks" -> 1..4
    [] unit = "months" -> 1..12
    [] unit = "years" -> 1..s

NoConfigFile == [kind |-> "missing", config |-> DefaultConfig]
BrokenFile == [kind |-> "broken", config |-> DefaultConfig]
ConfigFile(config) == [kind |-> "file", config |-> config]

\* load_from_file: the defaults when the path does not exist
load_from_file(f) ==
  CASE f.kind = "missing" -> [ok |-> TRUE, config |-> DefaultConfig]
    [] f.kind = "broken" -> [ok |-> FALSE, config |-> DefaultConfig]
    [] f.kind = "file" -> [ok |-> TRUE, config |-> f.config]

\* the loop over default_paths(): the first path load_from_file is Ok for
RECURSIVE FirstLoaded(_, _)
FirstLoaded(config, paths) ==
  IF paths = <<>> THEN config
  ELSE IF load_from_file(Head(paths)).ok THEN load_from_file(Head(paths)).config
  ELSE FirstLoaded(config, Tail(paths))

\* str::parse::<usize>() of decimal digits; -1 stands for Err
Digits == 48..57
RECURSIVE ParseDigits(_, _)
ParseDigits(s, acc) ==
  IF s = <<>> THEN acc ELSE ParseDigits(Tail(s), acc * 10 + (Head(s) - 48))
ParseUsize(s) ==
  IF s # <<>> /\ \A i \in 1..Len(s) : s[i] \in Digits THEN ParseDigits(s, 0) ELSE -1
\* str::parse::<u8>()
ParseU8(s) == IF ParseUsize(s) > 255 THEN -1 ELSE ParseUsize(s)

\* str::to_lowercase() over ASCII
ToLowercase(s) ==
  [i \in 1..Len(s) |-> IF s[i] \in 65..90 THEN s[i] + 32 ELSE s[i]]

StrTrue == <<116, 114, 117, 101>>
StrOne == <<49>>
StrYes == <<121, 101, 115>>

\* val.to_lowercase() == "true" || val == "1" || val == "yes"
ParseBool(s) == ToLowercase(s) = StrTrue \/ s = StrOne \/ s = StrYes

\* an environment variable that is not set
Unset == <<>>

\* apply_env_vars, for the variables of the fields modelled
apply_env_vars(config, env) ==
  [max_depth |->
     IF env.GITNAV_MAX_DEPTH # Unset /\ ParseUsize(env.GITNAV_MAX_DEPTH) # -1
       THEN ParseUsize(env.GITNAV_MAX_DEPTH) ELSE config.max_depth,
   enabled |->
     IF env.GITNAV_CACHE_ENABLED # Unset
       THEN ParseBool(env.GITNAV_CACHE_ENABLED) ELSE config.enabled,
   preview_width_percent |->
     IF env.GITNAV_UI_PREVIEW_WIDTH # Unset
          /\ ParseU8(env.GITNAV_UI_PREVIEW_WIDTH) # -1
          /\ ParseU8(env.GITNAV_UI_PREVIEW_WIDTH) <= 100
       THEN ParseU8(env.GITNAV_UI_PREVIEW_WIDTH) ELSE config.preview_width_percent,
   height_percent |->
     IF env.GITNAV_UI_HEIGHT # Unset
          /\ ParseU8(env.GITNAV_UI_HEIGHT) # -1
          /\ ParseU8(env.GITNAV_UI_HEIGHT) > 0
          /\ ParseU8(env.GITNAV_UI_HEIGHT) <= 100
       THEN ParseU8(env.GITNAV_UI_HEIGHT) ELSE config.height_percent]

NoCustomPath == [kind |-> "none", config |-> DefaultConfig]

\* Config::load(custom_path)
load(defaults, custom, env) ==
  LET config == FirstLoaded(DefaultConfig, defaults) IN
    IF custom.kind = "none"
      THEN [ok |-> TRUE, config |-> apply_env_vars(config, env)]
    ELSE IF load_from_file(custom).ok
      THEN [ok |-> TRUE, config |-> apply_env_vars(load_from_file(custom).config, env)]
    ELSE [ok |-> FALSE, config |-> DefaultConfig]

LoadCall ==
  /\ cfgOut = NotLoaded
  /\ cfgOut' = load(cfgIn.defaults, cfgIn.custom, cfgIn.env)
  /\ UNCHANGED <<cfgIn, cacheVars, scanVars, nonCfgExt>>

\* the configurations the files hold
FileConfigA == [DefaultConfig EXCEPT !.max_depth = MaxScanDepth]
FileConfigB == [DefaultConfig EXCEPT !.enabled = FALSE]
FileConfigC == [DefaultConfig EXCEPT !.preview_width_percent = 100]

\* default_paths(): none, one or two paths, with what is at each
DefaultFiles ==
  StrOver({NoConfigFile, BrokenFile, ConfigFile(FileConfigA), ConfigFile(FileConfigB)}, 2)
CustomFiles == {NoCustomPath, NoConfigFile, BrokenFile, ConfigFile(FileConfigC)}

NoEnv ==
  [GITNAV_MAX_DEPTH |-> Unset, GITNAV_CACHE_ENABLED |-> Unset,
   GITNAV_UI_PREVIEW_WIDTH |-> Unset, GITNAV_UI_HEIGHT |-> Unset]
Envs ==
  {NoEnv}
  \cup {[NoEnv EXCEPT !.GITNAV_MAX_DEPTH = v] : v \in {<<48>>, <<49>>, <<120>>}}
  \cup {[NoEnv EXCEPT !.GITNAV_CACHE_ENABLED = v] :
          v \in {<<84, 82, 85, 69>>, StrOne, StrYes, <<110, 111>>}}
  \cup {[NoEnv EXCEPT !.GITNAV_UI_PREVIEW_WIDTH = v] :
          v \in {<<49, 48, 48>>, <<49, 48, 49>>, <<50, 53, 54>>}}
  \cup {[NoEnv EXCEPT !.GITNAV_UI_HEIGHT = v] :
          v \in {<<48>>, <<49, 48, 48>>, <<49, 48, 49>>}}

ConfigInit ==
  /\ CacheInit
  /\ ttl = 1
  /\ input = <<>>
  /\ rawInput = <<>>
  /\ NoScan
  /\ RaceIdle
  /\ KeyIdle
  /\ FmtIdle
  /\ PvIdle
  /\ NavIdle
  /\ cfgIn \in [defaults : DefaultFiles, custom : CustomFiles, env : Envs]
  /\ cfgOut = NotLoaded

ConfigNext == LoadCall

SpecConfig == ConfigInit /\ [][ConfigNext]_vars

(***************************************************************************)
(* C20                                                                     *)
(***************************************************************************)
\* the first default path at which a config file is available, if any
RECURSIVE FirstAvailable(_)
FirstAvailable(paths) ==
  IF paths = <<>> THEN DefaultConfig
  ELSE IF Head(paths).kind = "file" THEN Head(paths).config
  ELSE FirstAvailable(Tail(paths))

\* the configuration the files give, before the environment
FromFiles ==
  IF cfgIn.custom.kind = "file" THEN cfgIn.custom.config
  ELSE FirstAvailable(cfgIn.defaults)

\* C20: Config::load applies its sources with priority env > custom path >
\* default paths > built-in defaults: without a custom path the configuration
\* is that of the first default path at which a file is available (a file
\* present only at the second path is loaded), the built-in defaults are
\* used only when no default path has one, and the environment variables
\* then override the result.
C20_FirstAvailableDefaultPath ==
  (cfgOut # NotLoaded /\ cfgIn.custom.kind \in {"none", "file"}) =>
    /\ cfgOut.ok
    /\ cfgOut.config.max_depth =
         (IF cfgIn.env.GITNAV_MAX_DEPTH \in {<<48>>, <<49>>}
            THEN cfgIn.env.GITNAV_MAX_DEPTH[1] - 48 ELSE FromFiles.max_depth)
    /\ cfgOut.config.enabled =
         (IF cfgIn.env.GITNAV_CACHE_ENABLED # Unset
            THEN cfgIn.env.GITNAV_CACHE_ENABLED # <<110, 111>> ELSE FromFiles.enabled)
    /\ cfgOut.config.preview_width_percent =
         (IF cfgIn.env.GITNAV_UI_PREVIEW_WIDTH = <<49, 48, 48>>
            THEN 100 ELSE FromFiles.preview_width_percent)
    /\ cfgOut.config.height_percent =
         (IF cfgIn.env.GITNAV_UI_HEIGHT = <<49, 48, 48>>
            THEN 100 ELSE FromFiles.height_percent)

(***************************************************************************)
(* What a scan is expected to report                                       *)
(***************************************************************************)
Depth(p) == Len(p) - Len(basePath)

\* the paths the walk can name: the root, and every entry below it
WalkPaths ==
  {basePath \o SubSeq(q, 2, Len(q)) : q \in {r \in DOMAIN tree : r[1] = NameR}}

Markers == {p \in WalkPaths : FileName(p) = DotGit}

\* p is the root, or an entry within the depth bound whose name no rule
\* excludes, in a readable directory that is reached and is not a link
\* (the root may be one)
RECURSIVE Reached(_, _)
Reached(p, rules) ==
  IF p = basePath THEN Exists(basePath)
  ELSE /\ Lstat(p).kind # "missing"
       /\ Depth(p) <= maxDepth
       /\ FileName(p) \notin rules
       /\ Reached(Parent(p), rules)
       /\ Stat(Parent(p)).readable
       /\ \/ Lstat(Parent(p)).kind = "dir"
          \/ Parent(p) = basePath /\ IsDir(basePath)

Records(path) == {i \in 1..Len(scanOut) : scanOut[i].path = path}
HasRecord(path) == Records(path) # {}

\* a tree without links, unreadable directories and ignore rules, scanned
\* from its real root
PlainScan ==
  /\ basePath = RealRoot
  /\ ignored = {}
  /\ \A q \in DOMAIN tree : q[1] = NameR => tree[q] \in {Dir, RegularFile}

(***************************************************************************)
(* C5                                                                      *)
(***************************************************************************)
\* C5: for the tree r/a/.git/, r/b/c/.git/, scan(r, 1) reports r/a and not
\* r/b/c, scan(r, 2) reports both in the order [a, c]; in general a
\* repository directory at depth d below the root is reported exactly when
\* d <= maxDepth.
C5_DepthBound ==
  (scanPc = "done" /\ PlainScan) =>
    /\ (tree = ExampleTree /\ maxDepth = 1) =>
         (HasRecord(<<NameR, NameA>>) /\ ~HasRecord(<<NameR, NameB, NameC>>))
    /\ (tree = ExampleTree /\ maxDepth = 2) =>
         scanOut = <<GitRepo(NameA, <<NameR, NameA>>),
                     GitRepo(NameC, <<NameR, NameB, NameC>>)>>
    /\ \A m \in Markers :
         Lstat(m).kind = "dir" => (HasRecord(Parent(m)) <=> Depth(Parent(m)) <= maxDepth)

(***************************************************************************)
(* C6                                                                      *)
(***************************************************************************)
\* C6 as stated: every directory named .git within the depth bound has
\* exactly one record, whose path is its parent, whatever else the tree
\* holds: nested markers are reported and no ignore rule suppresses one.
C6_AsStated ==
  scanPc = "done" =>
    \A m \in Markers :
      (Lstat(m).kind = "dir" /\ Reached(m, {})) =>
        Cardinality(Records(Parent(m))) = 1

\* C6 amended: every directory named .git that the walk reaches (within the
\* depth bound, below readable directories that are not links, and neither
\* itself nor any directory above it matched by an ignore rule) has exactly
\* one record, whose path is its parent; markers nested below a reported
\* repository are reported too.  Entries matched by an ignore rule are
\* skipped with everything below them.
C6_OneRecordPerReachedMarker ==
  scanPc = "done" =>
    /\ \A m \in Markers :
         (Lstat(m).kind = "dir" /\ Reached(m, ignored)) =>
           Cardinality(Records(Parent(m))) = 1
    /\ \A m \in Markers : ~Reached(m, ignored) => ~HasRecord(Parent(m))

\* a repository and a repository nested in it were both reported
C6_Witness ==
  /\ scanPc = "done"
  /\ HasRecord(basePath \o <<NameA>>)
  /\ HasRecord(basePath \o <<NameA, NameA>>)

(***************************************************************************)
(* C7                                                                      *)
(***************************************************************************)
\* C7 as stated: a directory whose .git child is a regular file has no
\* record, and every record's .git child is itself a directory.
C7_AsStated ==
  scanPc = "done" =>
    /\ \A m \in Markers : Lstat(m).kind = "file" => ~HasRecord(Parent(m))
    /\ \A i \in 1..Len(scanOut) :
         Lstat(scanOut[i].path \o <<DotGit>>).kind = "dir"

\* C7 amended: a directory whose .git child is a regular file has no
\* record, at any depth; a record is produced only when the .git child is
\* a directory or a symbolic link that resolves to a directory.
C7_MarkerMustBeDirectory ==
  scanPc = "done" =>
    /\ \A m \in Markers : Stat(m).kind = "file" => ~HasRecord(Parent(m))
    /\ \A i \in 1..Len(scanOut) : IsDir(scanOut[i].path \o <<DotGit>>)

\* the walk reached a regular file named .git and reported something else
C7_Witness ==
  /\ scanPc = "done"
  /\ scanOut # <<>>
  /\ \E m \in Markers :
       /\ Lstat(m).kind = "file" /\ Reached(m, ignored)
       /\ Depth(m) = 3
       /\ ~HasRecord(Parent(m))

(***************************************************************************)
(* C8                                                                      *)
(***************************************************************************)
StrLeq(a, b) == a = b \/ StrLess(a, b)

PosIn(seq, x) == CHOOSE i \in 1..Len(seq) : seq[i] = x

\* C8: the returned sequence is sorted by name in non-decreasing byte order,
\* holds every discovered record exactly once (no deduplication by name),
\* and records with equal names keep their discovery order.
C8_StableSortByName ==
  scanPc = "done" =>
    /\ \A i \in 1..(Len(scanOut) - 1) : StrLeq(scanOut[i].name, scanOut[i + 1].name)
    /\ Len(scanOut) = Len(walk.repos)
    /\ \A i \in 1..Len(walk.repos) : \E j \in 1..Len(scanOut) : scanOut[j] = walk.repos[i]
    /\ \A i, j \in 1..Len(scanOut) :
         (i < j /\ scanOut[i].name = scanOut[j].name) =>
           PosIn(walk.repos, scanOut[i]) < PosIn(walk.repos, scanOut[j])

\* two repositories named "a" at different paths were found after one
\* with a greater name, and the sort moved them to the front
C8_Witness ==
  /\ scanPc = "done"
  /\ Len(scanOut) >= 3
  /\ scanOut # walk.repos
  /\ scanOut[1].name = scanOut[2].name
  /\ scanOut[1].path # scanOut[2].path

(***************************************************************************)
(* C9                                                                      *)
(***************************************************************************)
\* directories the walk tried to list and could not
FailedReads ==
  {p \in WalkPaths : /\ Reached(p, ignored) /\ Depth(p) < maxDepth
                     /\ Lstat(p).kind = "dir" /\ ~Lstat(p).readable}

LinksOnPath(p, from) ==
  {k \in from..Len(p) : Lstat(SubSeq(p, 1, k)).kind = "link"}

\* C10 as stated: no record is discovered through a symlinked directory.
C10_AsStated ==
  scanPc = "done" =>
    \A i \in 1..Len(scanOut) :
      LinksOnPath(scanOut[i].path, Len(basePath)) = {}

NoDescentBelowRoot ==
  /\ \A i \in 1..Len(walk.stack) :
       LinksOnPath(Parent(walk.stack[i].path), Len(basePath) + 1) = {}
  /\ \A i \in 1..Len(walk.repos) :
       LinksOnPath(walk.repos[i].path, Len(basePath) + 1) = {}

\* every iteration of the loop consumes one entry or one read error, and the
\* walk produces each entry below the root, and each error, at most once
StepBound == Cardinality(WalkPaths) + Cardinality(FailedReads)

\* C10 amended: scan never descends into a symbolic link below the root it
\* was given (a root that is itself a link to a directory is entered), so no
\* record is discovered through a symlinked directory other than the root,
\* and every scan terminates, also on trees whose links form a cycle: the
\* loop makes at most one iteration per entry and per unreadable directory
\* of the tree, and returns when the walker is exhausted.
C10_NoLinkDescentAndTermination ==
  /\ NoDescentBelowRoot
  /\ walk.steps <= StepBound
  /\ (scanPc = "walking" /\ walk.steps = StepBound) => walk.stack = <<>>

\* with the fair scheduling of the loop, every scan returns
ScanTerminates == <>(scanPc \in {"done", "failed"})

\* a scan deep enough to pass through r/a -> r, a link cycle with a
\* repository behind it, has finished
C10_Witness ==
  /\ scanPc = "done"
  /\ walk.steps = StepBound
  /\ maxDepth >= 2
  /\ Lstat(basePath \o <<NameA>>).kind = "link"
  /\ IsDir(basePath \o <<NameA, DotGit>>)
  /\ ~HasRecord(basePath \o <<NameA>>)

====
